---- MODULE Spec2Model ----
(***************************************************************************)
(* Model of the price/comics monitor: the diff engine of monitor.ts        *)
(* (checkListMonitor, checkFieldsMonitor, runMonitors), its state file and *)
(* the notifier it calls.                                                  *)
(*                                                                         *)
(* The repository holds two revisions of monitor.ts.  They differ in two   *)
(* places only: the earlier one (src/unnamed/part_004) announces a first   *)
(* run with a "Now monitoring" message and evaluates the monitors of a run *)
(* with { concurrency: "unbounded" }; the later one (src/unnamed/part_003) *)
(* only logs a first run and evaluates with { concurrency: 1 }.  The       *)
(* variable rev says which revision is running.                            *)
(*                                                                         *)
(* Strings are sequences of one-character strings, so that parsePrice is   *)
(* computed the way its regular expression computes it.  Item ids are      *)
(* integers standing for id strings in their sort order.  Amounts of money *)
(* are integers counting cents.                                            *)
(***************************************************************************)
EXTENDS Integers, Sequences, FiniteSets, TLC

\* ------------------------------------------------------------------ bounds

\* Longest flattened extraction (perPage.flat()) of one list evaluation.
MaxItems == 2

\* Number of runs of the monitor script a behaviour may hold.
MaxRuns == 3

\* Longest flattened extraction handed to one stand-alone diff (SpecDiff).
MaxDiffItems == 2

\* Message texts of up to MaxTextLen characters, chunked at up to MaxChunkLen.
MaxTextLen == 4
MaxChunkLen == 3

\* Most new items in one formatted notification.
MaxFormatItems == 2

\* Most elements itemSelector matches on the pages of one extraction.
MaxElements == 2

\* The most urls of a list monitor whose pages are merged on their own.
MaxPages == 2

\* ------------------------------------------------------------- characters

Digits == {"0", "1", "2", "3", "4", "5", "6", "7", "8", "9"}

DigitVal(c) ==
    CASE c = "0" -> 0 [] c = "1" -> 1 [] c = "2" -> 2 [] c = "3" -> 3
      [] c = "4" -> 4 [] c = "5" -> 5 [] c = "6" -> 6 [] c = "7" -> 7
      [] c = "8" -> 8 [] c = "9" -> 9

\* A field that is null or undefined: no character string has this shape,
\* because "null" is not one character.
NullField == <<"null">>

\* parsePrice's results that are not amounts.
NullPrice == [kind |-> "null", cents |-> 0]
NaNPrice == [kind |-> "NaN", cents |-> 0]
Amount(c) == [kind |-> "number", cents |-> c]

\* ------------------------------------------------------------- parsePrice

\* The first index p with str[p] = "$" and str[p+1] in [\d,], or 0: where
\* the regular expression /\$([\d,]+(?:\.\d{2})?)/ starts to match.
RECURSIVE MatchStart(_, _)
MatchStart(str, p) ==
    IF p + 1 > Len(str) THEN 0
    ELSE IF str[p] = "$" /\ str[p + 1] \in (Digits \cup {","}) THEN p
    ELSE MatchStart(str, p + 1)

\* The last index of the greedy run [\d,]+ that starts at index q.
RECURSIVE RunEnd(_, _)
RunEnd(str, q) ==
    IF q + 1 <= Len(str) /\ str[q + 1] \in (Digits \cup {","})
    THEN RunEnd(str, q + 1)
    ELSE q

\* The value of the digits of a string, its commas dropped
\* (m[1].replace(/,/g, "")), read as a decimal integer.
RECURSIVE DigitsValue(_, _)
DigitsValue(str, acc) ==
    IF str = <<>> THEN acc
    ELSE IF Head(str) = "," THEN DigitsValue(Tail(str), acc)
    ELSE DigitsValue(Tail(str), acc * 10 + DigitVal(Head(str)))

HasDigit(str) == \E k \in 1..Len(str) : str[k] \in Digits

\* parsePrice: the amount after the first "$" that digits or commas follow,
\* with an optional two-digit fraction; parseFloat of "" is NaN, and
\* parseFloat of ".95" is 0.95.
parsePrice(str) ==
    IF str = NullField \/ str = <<>> THEN NullPrice
    ELSE LET p == MatchStart(str, 1) IN
         IF p = 0 THEN NullPrice
         ELSE LET e == RunEnd(str, p + 1)
                  whole == SubSeq(str, p + 1, e)
                  frac == e + 3 <= Len(str) /\ str[e + 1] = "."
                          /\ str[e + 2] \in Digits /\ str[e + 3] \in Digits
                  fracCents == IF frac
                               THEN DigitVal(str[e + 2]) * 10 + DigitVal(str[e + 3])
                               ELSE 0
              IN  IF ~HasDigit(whole) /\ ~frac THEN NaNPrice
                  ELSE Amount(DigitsValue(whole, 0) * 100 + fracCents)

\* WithinPrice as it would be if only a parsed amount above maxPrice were
\* turned away (`!(price > maxPrice)`): a missing price passes.
WithinPriceUnlessAbove(price, maxPrice) ==
    ~(price.kind = "number" /\ price.cents > maxPrice.cents)

\* `price !== null && price <= maxPrice`: NaN compares false with everything.
WithinPrice(price, maxPrice) ==
    /\ price # NullPrice
    /\ price.kind = "number"
    /\ price.cents <= maxPrice.cents

\* --------------------------------------------------------- items and maps

\* maxPrice is optional in a list monitor's configuration; when given it
\* is a number, Amount(cents).
Undefined == [kind |-> "undefined", cents |-> 0]

\* A ScrapedItem: its id and its fields (here the price field).
Item(id, price) == [id |-> id, price |-> price]

\* new Map(entries): a later entry of a key replaces the value in place,
\* an entry of a new key is appended (Map keeps insertion order).
RECURSIVE MapFromEntries(_, _)
MapFromEntries(entries, map) ==
    IF entries = <<>> THEN map
    ELSE LET e == Head(entries)
             at == {k \in 1..Len(map) : map[k].id = e.id}
         IN  MapFromEntries(Tail(entries),
                IF at = {} THEN Append(map, e)
                ELSE [map EXCEPT ![CHOOSE k \in at : TRUE] = e])

MapKeys(map) == [k \in 1..Len(map) |-> map[k].id]

MapGet(map, id) == map[CHOOSE k \in 1..Len(map) : map[k].id = id]

\* Array.prototype.sort on ids (insertion into an ascending sequence).
RECURSIVE Insert(_, _)
Insert(sorted, x) ==
    IF sorted = <<>> THEN <<x>>
    ELSE IF x <= Head(sorted) THEN <<x>> \o sorted
    ELSE <<Head(sorted)>> \o Insert(Tail(sorted), x)

RECURSIVE Sort(_)
Sort(seq) == IF seq = <<>> THEN <<>> ELSE Insert(Sort(Tail(seq)), Head(seq))

Range(seq) == {seq[k] : k \in 1..Len(seq)}

\* ------------------------------------------------------------ state store

\* The strings a StateMap holds: JSON.stringify of an id array, or the hex
\* digest of a field snapshot.  NoValue is `state[key] ?? null` of a key
\* that is absent.
JsonStringify(ids) == [kind |-> "json", ids |-> ids, snap |-> <<>>]
JsonParse(raw) == raw.ids
hashData(data) == [kind |-> "sha256", ids |-> <<>>, snap |-> data]
NoValue == [kind |-> "null", ids |-> <<>>, snap |-> <<>>]

\* monitorKey as it would be if it did not depend on the name.
monitorKeyShared(name) == [hash |-> "sha256", data |-> ""]

\* sha256 of the monitor's name: two names never share a key.
monitorKey(name) == [hash |-> "sha256", data |-> name]

\* A StateMap is an object: its entries in insertion order.
Keys(state) == {state[k].key : k \in 1..Len(state)}

Get(state, key) ==
    IF key \in Keys(state)
    THEN state[CHOOSE k \in 1..Len(state) : state[k].key = key].value
    ELSE NoValue

\* Put as it would be without the spread: ({ [key]: value }).
PutAlone(state, key, value) == <<[key |-> key, value |-> value]>>

\* Put as it would be if the new entry took the first place of the object.
PutFirst(state, key, value) ==
    IF state = <<>> THEN <<[key |-> key, value |-> value]>>
    ELSE <<[key |-> key, value |-> value]>> \o Tail(state)

\* ({ ...s, [key]: value }): an existing key keeps its place.
Put(state, key, value) ==
    IF key \in Keys(state)
    THEN [k \in 1..Len(state) |->
            IF state[k].key = key THEN [key |-> key, value |-> value]
            ELSE state[k]]
    ELSE Append(state, [key |-> key, value |-> value])

\* state.json: absent, or the text JSON.stringify(state, null, 2) + "\n",
\* which lists the entries in the object's order.  A document that
\* JSON.parse rejects (the first n entries of a write that did not end) is
\* not valid.
NoFile == [exists |-> FALSE, valid |-> FALSE, text |-> <<>>]
FileOf(state) == [exists |-> TRUE, valid |-> TRUE, text |-> state]
PartialFile(state, n) == [exists |-> TRUE, valid |-> FALSE, text |-> SubSeq(state, 1, n)]

\* loadStateFile as it would be if what could be read were returned.
loadStateFileUncaught(file) == IF ~file.exists THEN <<>> ELSE file.text

\* existsSync, then JSON.parse(readFileSync(...)) in a try whose catch
\* returns {}.
loadStateFile(file) ==
    IF ~file.exists THEN <<>>
    ELSE IF ~file.valid THEN <<>>
    ELSE file.text

\* writeFileSync(STATE_PATH, ...) when it runs to its end.
saveStateFile(state) == FileOf(state)

\* ------------------------------------------------------------- data model

\* The two revisions of monitor.ts.
Revisions == {"part_003", "part_004"}

\* MonitorConfig.  A fields monitor has no maxPrice.
ListMonitor(name, maxPrice) == [type |-> "list", name |-> name, maxPrice |-> maxPrice]
FieldsMonitor(name) == [type |-> "fields", name |-> name, maxPrice |-> Undefined]

\* MonitorResult: count, newItems and error are optional.
NoCount == -1
Result(name, status, count, newItems, error) ==
    [name |-> name, status |-> status, count |-> count,
     newItems |-> newItems, error |-> error]
NoResult == Result("", "none", NoCount, <<>>, "")

\* The texts handed to sendMessage, by what they say.
NoMessage == [kind |-> "none", name |-> "", items |-> <<>>]
formatNewItems(monitorName, items) ==
    [kind |-> "new_items", name |-> monitorName, items |-> items]
NowMonitoring(name) == [kind |-> "now_monitoring", name |-> name, items |-> <<>>]
ChangeDetected(name) == [kind |-> "change_detected", name |-> name, items |-> <<>>]

\* ------------------------------------------------------------ diff engine

\* The price filter of checkListMonitor.
IsCandidate(item, maxPrice) ==
    IF maxPrice = Undefined THEN TRUE
    ELSE WithinPrice(parsePrice(item.price), maxPrice)

\* const itemById = new Map(perPage.flat().map((item) => [item.id, item]))
MergePages(flat) == MapFromEntries(flat, <<>>)

\* NothingExtracted as it would be without the guard.
NothingExtractedUnguarded(itemById) == FALSE

\* The guard against a blocked fetch: itemById.size === 0.
NothingExtracted(itemById) == Len(itemById) = 0

\* IdSets as it would be if allIds were taken from the candidates.
IdSetsOfCandidates(itemById, maxPrice) ==
    LET Keep(item) == IsCandidate(item, maxPrice)
        candidates == SelectSeq(itemById, Keep)
        candidateById == MapFromEntries(candidates, <<>>)
    IN  [allIds |-> Sort(MapKeys(candidateById)),
         candidateById |-> candidateById,
         candidateIds |-> Sort(MapKeys(candidateById))]

\* IdSets as it would be without the two sorts.
IdSetsUnsorted(itemById, maxPrice) ==
    LET Keep(item) == IsCandidate(item, maxPrice)
        candidates == SelectSeq(itemById, Keep)
        candidateById == MapFromEntries(candidates, <<>>)
    IN  [allIds |-> MapKeys(itemById),
         candidateById |-> candidateById,
         candidateIds |-> MapKeys(candidateById)]

\* candidates, allIds, candidateById and candidateIds of checkListMonitor.
IdSets(itemById, maxPrice) ==
    LET Keep(item) == IsCandidate(item, maxPrice)
        candidates == SelectSeq(itemById, Keep)
        candidateById == MapFromEntries(candidates, <<>>)
    IN  [allIds |-> Sort(MapKeys(itemById)),
         candidateById |-> candidateById,
         candidateIds |-> Sort(MapKeys(candidateById))]

\* NewItems as it would be if the previous ids were not consulted.
NewItemsAllCandidates(candidateIds, candidateById, prevIds) ==
    [k \in 1..Len(candidateIds) |-> MapGet(candidateById, candidateIds[k])]

\* candidateIds.filter((id) => !prevSet.has(id)).map((id) => candidateById.get(id)!)
NewItems(candidateIds, candidateById, prevIds) ==
    LET prevSet == Range(prevIds)
        Unseen(id) == id \notin prevSet
        ids == SelectSeq(candidateIds, Unseen)
    IN  [k \in 1..Len(ids) |-> MapGet(candidateById, ids[k])]

\* The message a first run sends: none in part_003, which only logs.
FirstRunMessage(r, name) ==
    IF r = "part_004" THEN NowMonitoring(name) ELSE NoMessage

\* ListDiff as it would be if the entry accumulated every id ever observed.
ListDiffUnion(r, monitor, flat, state) ==
    LET name == monitor.name
        itemById == MergePages(flat)
    IN  IF NothingExtracted(itemById)
        THEN [state |-> state, send |-> NoMessage,
              result |-> Result(name, "unchanged", NoCount, <<>>, "")]
        ELSE
        LET sets == IdSets(itemById, monitor.maxPrice)
            allIds == sets.allIds
            key == monitorKey(name)
            prevRaw == Get(state, key)
        IN  IF prevRaw = NoValue
            THEN [state |-> Put(state, key, JsonStringify(allIds)),
                  send |-> FirstRunMessage(r, name),
                  result |-> Result(name, "initialized", Len(allIds), <<>>, "")]
            ELSE
            LET prevIds == JsonParse(prevRaw)
                newItems == NewItems(sets.candidateIds, sets.candidateById, prevIds)
                everSeen == Sort(prevIds \o SelectSeq(allIds,
                                LAMBDA id : id \notin Range(prevIds)))
                updated == Put(state, key, JsonStringify(everSeen))
            IN  IF Len(newItems) = 0
                THEN [state |-> updated, send |-> NoMessage,
                      result |-> Result(name, "unchanged", NoCount, <<>>, "")]
                ELSE [state |-> updated,
                      send |-> formatNewItems(name, newItems),
                      result |-> Result(name, "new_items", NoCount, newItems, "")]

\* checkListMonitor from the extraction on: the state it leaves in stateRef,
\* the message it hands to sendMessage, and the result it returns if that
\* message is delivered.
ListDiff(r, monitor, flat, state) ==
    LET name == monitor.name
        itemById == MergePages(flat)
    IN  IF NothingExtracted(itemById)
        THEN [state |-> state, send |-> NoMessage,
              result |-> Result(name, "unchanged", NoCount, <<>>, "")]
        ELSE
        LET sets == IdSets(itemById, monitor.maxPrice)
            allIds == sets.allIds
            key == monitorKey(name)
            prevRaw == Get(state, key)
        IN  IF prevRaw = NoValue
            THEN [state |-> Put(state, key, JsonStringify(allIds)),
                  send |-> FirstRunMessage(r, name),
                  result |-> Result(name, "initialized", Len(allIds), <<>>, "")]
            ELSE
            LET newItems == NewItems(sets.candidateIds, sets.candidateById,
                                     JsonParse(prevRaw))
                updated == Put(state, key, JsonStringify(allIds))
            IN  IF Len(newItems) = 0
                THEN [state |-> updated, send |-> NoMessage,
                      result |-> Result(name, "unchanged", NoCount, <<>>, "")]
                ELSE [state |-> updated,
                      send |-> formatNewItems(name, newItems),
                      result |-> Result(name, "new_items", NoCount, newItems, "")]

\* FieldsDiff as it would be if the hashes were not compared.
FieldsDiffUncompared(r, monitor, current, state) ==
    LET name == monitor.name
        key == monitorKey(name)
    IN  IF Get(state, key) = NoValue
        THEN [state |-> Put(state, key, hashData(current)),
              send |-> FirstRunMessage(r, name),
              result |-> Result(name, "initialized", NoCount, <<>>, "")]
        ELSE [state |-> Put(state, key, hashData(current)),
              send |-> ChangeDetected(name),
              result |-> Result(name, "new_items", NoCount, <<>>, "")]

\* checkFieldsMonitor from the extraction on.
FieldsDiff(r, monitor, current, state) ==
    LET name == monitor.name
        currentHash == hashData(current)
        key == monitorKey(name)
        prevHash == Get(state, key)
    IN  IF prevHash = NoValue
        THEN [state |-> Put(state, key, currentHash),
              send |-> FirstRunMessage(r, name),
              result |-> Result(name, "initialized", NoCount, <<>>, "")]
        ELSE IF prevHash # currentHash
        THEN [state |-> Put(state, key, currentHash),
              send |-> ChangeDetected(name),
              result |-> Result(name, "new_items", NoCount, <<>>, "")]
        ELSE [state |-> state, send |-> NoMessage,
              result |-> Result(name, "unchanged", NoCount, <<>>, "")]

\* Effect.catchAll at the monitor boundary.
ErrorResult(monitor, error) == Result(monitor.name, "error", NoCount, <<>>, error)

\* ----------------------------------------------------------------- inputs

\* Texts of the price field.
Price50 == <<"$", "5", "0", ".", "0", "0">>
Price75 == <<"$", "7", "5", ".", "0", "0">>

\* maxPrice: absent, or 50.
MaxPrices == {Undefined, Amount(5000)}

RECURSIVE SeqsUpTo(_, _)
SeqsUpTo(S, n) ==
    IF n = 0 THEN {<<>>}
    ELSE LET shorter == SeqsUpTo(S, n - 1)
         IN  shorter \cup {Append(q, x) : q \in shorter, x \in S}

\* The listings the pages of the list monitor show over the runs: item 1,
\* whose price moves between $50.00 and $75.00, and item 2.
Listings == {Item(1, Price50), Item(1, Price75), Item(2, Price50)}

\* What the pages of a list monitor can yield: perPage.flat().
Extractions == SeqsUpTo(Listings, MaxItems)

\* What the page of a fields monitor can yield: one selector, its text or null.
Snapshots == {<<NullField>>, <<Price50>>}

\* The monitor configuration documents: monitors of distinct names.
ListName == "Comics"
FieldsName == "Page"
Names == {ListName, FieldsName}
Configs ==
    LET lists == {ListMonitor(ListName, mp) : mp \in MaxPrices}
        field == FieldsMonitor(FieldsName)
    IN  {<<>>, <<field>>} \cup {<<l>> : l \in lists}
        \cup {<<ListMonitor(ListName, Amount(5000)), field>>,
              <<field, ListMonitor(ListName, Undefined)>>}

\* ------------------------------------------------------------------ state

VARIABLES
    rev,        \* the revision of monitor.ts that runs
    runs,       \* how many runs were started
    stateFile,  \* state.json
    pc,         \* the monitor script: "idle" (not running), "running", or
                \* "failed" (it died reading the configuration)
    monitors,   \* the configuration read by the current run
    loaded,     \* what loadStateFile returned to the current run
    stateRef,   \* the Ref<StateMap> of the current run
    mpc,        \* per monitor: "fetch", "send" or "done"
    results,    \* per monitor: the MonitorResult it returned
    sends,      \* per monitor: the message it handed to sendMessage, and its fate
    onSent,     \* per monitor: the result it returns once the message is delivered
    lastFetch,  \* history, per name: what the previous run extracted
    rel,        \* history, per monitor: how its extraction relates to lastFetch
    everIds,    \* history, per name: every id a finished run has persisted
    fileOps,    \* history: the calls on state.json of the latest process
    probe       \* one evaluation of the list diff on its own (SpecListDiff)

vars == <<probe, rev, runs, stateFile, pc, monitors, loaded, stateRef, mpc, results,
          sends, onSent, lastFetch, rel, everIds, fileOps>>

NoFetch == [st |-> "none", items |-> {}, snap |-> <<>>, maxPrice |-> Undefined]
FailedFetch == [st |-> "failed", items |-> {}, snap |-> <<>>, maxPrice |-> Undefined]
NoRel == [same |-> FALSE, priceChanged |-> FALSE, dropped |-> {}]
NoSend == [msg |-> NoMessage, st |-> "none"]
NoDiff == [state |-> <<>>, send |-> NoMessage, result |-> NoResult]
NoProbe == [phase |-> "none", monitor |-> FieldsMonitor(""), flat |-> <<>>,
            state |-> <<>>, out |-> NoDiff]

\* The monitor script is not running and nothing is recorded of any run.
NoRunYet ==
    /\ rev \in Revisions
    /\ runs = 0
    /\ pc = "idle"
    /\ monitors = <<>>
    /\ loaded = <<>>
    /\ stateRef = <<>>
    /\ mpc = <<>>
    /\ results = <<>>
    /\ sends = <<>>
    /\ onSent = <<>>
    /\ lastFetch = [n \in Names |-> NoFetch]
    /\ rel = <<>>
    /\ everIds = [n \in Names |-> {}]
    /\ fileOps = <<>>

RunInit ==
    /\ NoRunYet
    /\ stateFile = NoFile

Init ==
    /\ RunInit
    /\ probe = NoProbe

\* ------------------------------------------------------------- runMonitors

\* runMonitors up to Effect.all: the configuration is read and parsed, the
\* state file is loaded into the Ref, and the monitors' evaluations begin.
StartRun(config) ==
    /\ pc # "running"
    /\ runs < MaxRuns
    /\ runs' = runs + 1
    /\ pc' = "running"
    /\ monitors' = config
    /\ loaded' = loadStateFile(stateFile)
    /\ stateRef' = loadStateFile(stateFile)
    /\ mpc' = [i \in 1..Len(config) |-> "fetch"]
    /\ results' = [i \in 1..Len(config) |-> NoResult]
    /\ sends' = [i \in 1..Len(config) |-> NoSend]
    /\ onSent' = [i \in 1..Len(config) |-> NoResult]
    /\ rel' = [i \in 1..Len(config) |-> NoRel]
    /\ fileOps' = <<"loadStateFile">>
    /\ UNCHANGED <<probe, rev, stateFile, lastFetch, everIds>>

\* runMonitors when readFileSync or JSON.parse of the configuration throws.
\* The throw happens inside Effect.gen, so it is a defect (Cause.die), which
\* Effect.catchAll does not handle: the outer catchAll is passed over, the
\* promise of Effect.runPromise rejects, and the process ends without a
\* result.  Nothing is loaded, evaluated or saved.
StartRunFails ==
    /\ pc # "running"
    /\ runs < MaxRuns
    /\ runs' = runs + 1
    /\ pc' = "failed"
    /\ monitors' = <<>>
    /\ loaded' = <<>>
    /\ stateRef' = <<>>
    /\ mpc' = <<>>
    /\ results' = <<>>
    /\ sends' = <<>>
    /\ onSent' = <<>>
    /\ rel' = <<>>
    /\ fileOps' = <<>>
    /\ lastFetch' = [n \in Names |-> NoFetch]
    /\ UNCHANGED <<probe, rev, stateFile, everIds>>

\* MayStep as it would be if a monitor's error ended the run's evaluations
\* (Effect.all without the monitors' catchAll).
MayStepUntilError(i) ==
    /\ \A j \in 1..Len(monitors) : results[j].status # "error"
    /\ \/ rev = "part_004"
       \/ \A j \in 1..(i - 1) : mpc[j] = "done"

\* Effect.all(..., { concurrency: 1 }) of part_003 starts a monitor when the
\* ones before it have returned; { concurrency: "unbounded" } of part_004
\* starts them all at once.
MayStep(i) ==
    \/ rev = "part_004"
    \/ \A j \in 1..(i - 1) : mpc[j] = "done"

\* Return as it would be if the run collected the results in the order in
\* which the monitors return.
ReturnAsCompleted(i, result) ==
    /\ mpc' = [mpc EXCEPT ![i] = "done"]
    /\ results' = [results EXCEPT
            ![1 + Cardinality({j \in 1..Len(mpc) : mpc[j] = "done"})] = result]

\* A monitor returns its result.  Effect.all hands the results back in the
\* order of its input, whichever order the monitors return in.
Return(i, result) ==
    /\ mpc' = [mpc EXCEPT ![i] = "done"]
    /\ results' = [results EXCEPT ![i] = result]

\* A diff ends: the Ref is updated, and either the monitor returns or it
\* awaits sendMessage.
AfterDiff(i, d) ==
    /\ stateRef' = d.state
    /\ IF d.send = NoMessage
       THEN /\ Return(i, d.result)
            /\ UNCHANGED <<sends, onSent>>
       ELSE /\ mpc' = [mpc EXCEPT ![i] = "send"]
            /\ sends' = [sends EXCEPT ![i] = [msg |-> d.send, st |-> "sending"]]
            /\ onSent' = [onSent EXCEPT ![i] = d.result]
            /\ UNCHANGED results

\* fetchPage or extractItemList / extractFields fails: the monitor's
\* catchAll turns the FetchError or ParseError into an error result.
FetchFails(i, error) ==
    /\ pc = "running"
    /\ i \in 1..Len(monitors)
    /\ mpc[i] = "fetch"
    /\ MayStep(i)
    /\ Return(i, ErrorResult(monitors[i], error))
    /\ lastFetch' = [lastFetch EXCEPT ![monitors[i].name] = FailedFetch]
    /\ UNCHANGED <<probe, rev, runs, stateFile, pc, monitors, loaded, stateRef,
                   sends, onSent, rel, everIds, fileOps>>

\* How an extraction relates to the one of the run before (history only).
RelOf(monitor, prev, merged) ==
    [same |-> prev.st = "ok" /\ prev.items = Range(merged),
     priceChanged |-> prev.st = "ok" /\ prev.maxPrice # monitor.maxPrice,
     dropped |->
        IF prev.st # "ok" THEN {}
        ELSE {it.id : it \in
                {it \in Range(merged) :
                    /\ IsCandidate(it, monitor.maxPrice)
                    /\ \E old \in prev.items :
                          old.id = it.id /\ ~IsCandidate(old, prev.maxPrice)}}]

\* checkListMonitor when all pages are fetched and extracted.
checkListMonitor(i, flat) ==
    /\ pc = "running"
    /\ i \in 1..Len(monitors)
    /\ monitors[i].type = "list"
    /\ mpc[i] = "fetch"
    /\ MayStep(i)
    /\ AfterDiff(i, ListDiff(rev, monitors[i], flat, stateRef))
    /\ lastFetch' = [lastFetch EXCEPT ![monitors[i].name] =
            [st |-> "ok", items |-> Range(MergePages(flat)), snap |-> <<>>,
             maxPrice |-> monitors[i].maxPrice]]
    /\ rel' = [rel EXCEPT ![i] =
            RelOf(monitors[i], lastFetch[monitors[i].name], MergePages(flat))]
    /\ UNCHANGED <<probe, rev, runs, stateFile, pc, monitors, loaded, everIds, fileOps>>

\* checkFieldsMonitor when the page is fetched and extracted.
checkFieldsMonitor(i, current) ==
    /\ pc = "running"
    /\ i \in 1..Len(monitors)
    /\ monitors[i].type = "fields"
    /\ mpc[i] = "fetch"
    /\ MayStep(i)
    /\ AfterDiff(i, FieldsDiff(rev, monitors[i], current, stateRef))
    /\ lastFetch' = [lastFetch EXCEPT ![monitors[i].name] =
            [st |-> "ok", items |-> {}, snap |-> current, maxPrice |-> Undefined]]
    /\ rel' = [rel EXCEPT ![i] =
            [same |-> lastFetch[monitors[i].name].st = "ok"
                      /\ lastFetch[monitors[i].name].snap = current,
             priceChanged |-> FALSE, dropped |-> {}]]
    /\ UNCHANGED <<probe, rev, runs, stateFile, pc, monitors, loaded, everIds, fileOps>>

\* sendMessage ends: delivered, or a NotifyError that the monitor's catchAll
\* turns into an error result.
sendMessage(i, delivered) ==
    /\ pc = "running"
    /\ i \in 1..Len(monitors)
    /\ mpc[i] = "send"
    /\ sends' = [sends EXCEPT ![i].st = IF delivered THEN "delivered" ELSE "failed"]
    /\ Return(i, IF delivered THEN onSent[i]
                 ELSE ErrorResult(monitors[i], "NotifyError"))
    /\ UNCHANGED <<probe, rev, runs, stateFile, pc, monitors, loaded, stateRef,
                   onSent, lastFetch, rel, everIds, fileOps>>

\* The ids a state file holds under a name's key.
IdsOf(state, name) == Range(JsonParse(Get(state, monitorKey(name))))

\* The process of a run ends, leaving `file` as state.json.
EndRun(file) ==
    /\ stateFile' = file
    /\ pc' = "idle"
    /\ monitors' = <<>>
    /\ loaded' = <<>>
    /\ stateRef' = <<>>
    /\ mpc' = <<>>
    /\ results' = <<>>
    /\ sends' = <<>>
    /\ onSent' = <<>>
    /\ rel' = <<>>
    /\ everIds' = [n \in Names |-> everIds[n] \cup IdsOf(file.text, n)]
    /\ fileOps' = Append(fileOps, "saveStateFile")
    /\ lastFetch' = [n \in Names |->
            IF \E i \in 1..Len(monitors) : monitors[i].name = n
            THEN lastFetch[n] ELSE NoFetch]
    /\ UNCHANGED <<probe, rev, runs>>

\* FinishRun as it would be if the state were flushed without awaiting the
\* monitors.
FinishRunEarly ==
    /\ pc = "running"
    /\ EndRun(saveStateFile(stateRef))

\* runMonitors after Effect.all: the final state is saved, the results are
\* returned and printed, and the process exits.
FinishRun ==
    /\ pc = "running"
    /\ \A i \in 1..Len(monitors) : mpc[i] = "done"
    /\ EndRun(saveStateFile(stateRef))

Next ==
    \/ \E config \in Configs : StartRun(config)
    \/ StartRunFails
    \/ \E i \in 1..2, error \in {"FetchError", "ParseError"} : FetchFails(i, error)
    \/ \E i \in 1..2, flat \in Extractions : checkListMonitor(i, flat)
    \/ \E i \in 1..2, current \in Snapshots : checkFieldsMonitor(i, current)
    \/ \E i \in 1..2, delivered \in BOOLEAN : sendMessage(i, delivered)
    \/ FinishRun

Spec == Init /\ [][Next]_vars

\* ------------------------------------------------ runs that may die saving

\* writeFileSync opens state.json for writing, which empties it, and then
\* writes the document.  The process ends (it is killed, or the write
\* throws for lack of space) when the first n entries are on disk.
SaveInterrupted(n) ==
    /\ pc = "running"
    /\ \A i \in 1..Len(monitors) : mpc[i] = "done"
    /\ n \in 0..Len(stateRef)
    /\ EndRun(PartialFile(stateRef, n))

NextSave ==
    \/ Next
    \/ \E n \in 0..2 : SaveInterrupted(n)

SpecSave == Init /\ [][NextSave]_vars

\* --------------------------------- one run, whatever it finds as state.json

\* What a run can find at the path of state.json: nothing, a document that
\* an earlier run saved, or what an interrupted save left of one.
SavedStates ==
    {<<>>,
     <<[key |-> monitorKey(ListName), value |-> JsonStringify(<<1>>)]>>,
     <<[key |-> monitorKey(FieldsName), value |-> hashData(<<Price50>>)],
       [key |-> monitorKey(ListName), value |-> JsonStringify(<<1, 2>>)]>>}
FoundFiles ==
    {NoFile} \cup {FileOf(st) : st \in SavedStates}
    \cup UNION {{PartialFile(st, n) : n \in 0..Len(st)} : st \in SavedStates}

InitLoad ==
    /\ NoRunYet
    /\ probe = NoProbe
    /\ stateFile \in FoundFiles

\* The steps of the first process.
NextLoad ==
    /\ runs' = 1
    /\ \/ \E config \in Configs : StartRun(config)
       \/ StartRunFails
       \/ \E i \in 1..2, error \in {"FetchError", "ParseError"} : FetchFails(i, error)
       \/ \E i \in 1..2, flat \in Extractions : checkListMonitor(i, flat)
       \/ \E i \in 1..2, current \in Snapshots : checkFieldsMonitor(i, current)
       \/ \E i \in 1..2, delivered \in BOOLEAN : sendMessage(i, delivered)
       \/ FinishRun

SpecLoad == InitLoad /\ [][NextLoad]_vars

\* ------------------------------------------------- the list diff on its own

\* One evaluation of checkListMonitor's diff, over more ids and more price
\* texts than the runs above afford: a missing price, "N/A", "$," (which
\* parses to NaN), "$50.00", "$75.00" and "$1,000".
DiffIds == {1, 2, 3}
DiffPrices == {NullField, <<"N", "/", "A">>, <<"$", ",">>, Price50, Price75,
               <<"$", "1", ",", "0", "0", "0">>}
DiffItems == {Item(id, price) : id \in DiffIds, price \in DiffPrices}

\* The entries a list monitor can find under its key: none, or the sorted
\* ids of an earlier non-empty extraction.
PriorIdArrays == {<<1>>, <<2>>, <<3>>, <<1, 2>>, <<1, 3>>, <<2, 3>>, <<1, 2, 3>>}
PriorStates ==
    {<<>>} \cup {<<[key |-> monitorKey(ListName), value |-> JsonStringify(ids)]>> :
                    ids \in PriorIdArrays}

InitListDiff ==
    /\ RunInit
    /\ probe \in {[phase |-> "input", monitor |-> ListMonitor(ListName, mp),
                   flat |-> flat, state |-> state, out |-> NoDiff] :
                    mp \in MaxPrices, flat \in SeqsUpTo(DiffItems, MaxDiffItems),
                    state \in PriorStates}

ApplyListDiff ==
    /\ probe.phase = "input"
    /\ probe' = [probe EXCEPT !.phase = "output",
                              !.out = ListDiff(rev, probe.monitor, probe.flat, probe.state)]
    /\ UNCHANGED <<rev, runs, stateFile, pc, monitors, loaded, stateRef, mpc,
                   results, sends, onSent, lastFetch, rel, everIds, fileOps>>

NextListDiff == ApplyListDiff

SpecListDiff == InitListDiff /\ [][NextListDiff]_vars

\* ------------------------------------------- the page merge on its own

\* Effect.all(effects, { concurrency: "unbounded" }) runs the effects
\* together and returns their values in an array ordered as the effects
\* are, not as they complete.  `values` are the values by position and
\* `order` the positions in order of completion.
GatherAsCompleted(values, order) == [k \in 1..Len(order) |-> values[order[k]]]

Gather(values, order) == values

\* Array.prototype.flat on an array of arrays.
RECURSIVE Flat(_)
Flat(arrays) ==
    IF arrays = <<>> THEN <<>> ELSE Head(arrays) \o Flat(Tail(arrays))

\* What the pages of the urls show: item 1 at either price, item 2.
PageItems == {Item(1, Price50), Item(1, Price75), Item(2, Price50)}
PageContents == SeqsUpTo(PageItems, 2)
PageLists == SeqsUpTo(PageContents, MaxPages) \ {<<>>}

InitMerge ==
    /\ RunInit
    /\ probe \in {[phase |-> "fetch", urls |-> pl, fetched |-> <<>>, pages |-> <<>>,
                   extracted |-> <<>>, perPage |-> <<>>, itemById |-> <<>>] :
                    pl \in PageLists}

\* fetchPage of url u completes; when it is the last, Effect.all returns
\* the pages and the extractions start.
FetchCompletes(u) ==
    /\ probe.phase = "fetch"
    /\ u \in 1..Len(probe.urls)
    /\ u \notin Range(probe.fetched)
    /\ LET order == Append(probe.fetched, u)
       IN  probe' =
             IF Len(order) < Len(probe.urls)
             THEN [probe EXCEPT !.fetched = order]
             ELSE [probe EXCEPT !.fetched = order, !.phase = "extract",
                                !.pages = Gather(probe.urls, order)]
    /\ UNCHANGED <<rev, runs, stateFile, pc, monitors, loaded, stateRef, mpc,
                   results, sends, onSent, lastFetch, rel, everIds, fileOps>>

\* extractItemList of page u completes; when it is the last, Effect.all
\* returns perPage and the map is built from perPage.flat().
ExtractCompletes(u) ==
    /\ probe.phase = "extract"
    /\ u \in 1..Len(probe.pages)
    /\ u \notin Range(probe.extracted)
    /\ LET order == Append(probe.extracted, u)
           perPage == Gather(probe.pages, order)
       IN  probe' =
             IF Len(order) < Len(probe.pages)
             THEN [probe EXCEPT !.extracted = order]
             ELSE [probe EXCEPT !.extracted = order, !.phase = "merged",
                                !.perPage = perPage,
                                !.itemById = MergePages(Flat(perPage))]
    /\ UNCHANGED <<rev, runs, stateFile, pc, monitors, loaded, stateRef, mpc,
                   results, sends, onSent, lastFetch, rel, everIds, fileOps>>

NextMerge ==
    \/ \E u \in 1..MaxPages : FetchCompletes(u)
    \/ \E u \in 1..MaxPages : ExtractCompletes(u)

SpecMerge == InitMerge /\ [][NextMerge]_vars

\* ------------------------------------------------ a run as one function

\* What a monitor meets in a run: its fetch or extraction fails, or it
\* extracts `flat` (list) or `snap` (fields); and whether Telegram accepts
\* the message it may send.
FailedInput == [failed |-> TRUE, flat |-> <<>>, snap |-> <<>>, delivered |-> FALSE]
ListInput(flat, delivered) ==
    [failed |-> FALSE, flat |-> flat, snap |-> <<>>, delivered |-> delivered]
FieldsInput(snap, delivered) ==
    [failed |-> FALSE, flat |-> <<>>, snap |-> snap, delivered |-> delivered]

\* The diff of the monitor's type on the state the Ref holds.
DiffOf(r, monitor, input, state) ==
    IF monitor.type = "list"
    THEN ListDiff(r, monitor, input.flat, state)
    ELSE FieldsDiff(r, monitor, input.snap, state)

\* After the diff d: the Ref holds d.state, and the monitor returns
\* d.result unless sendMessage fails on the message d hands it.
Returned(monitor, input, d) ==
    [state |-> d.state,
     result |-> IF d.send = NoMessage \/ input.delivered
                THEN d.result
                ELSE ErrorResult(monitor, "NotifyError")]

\* checkMonitor with its catchAll.
checkMonitor(r, monitor, input, state) ==
    IF input.failed
    THEN [state |-> state, result |-> ErrorResult(monitor, "FetchError")]
    ELSE Returned(monitor, input, DiffOf(r, monitor, input, state))

\* A monitor's outcome joins the run's: the Ref, and the results so far.
Collected(acc, out) ==
    [state |-> out.state, results |-> Append(acc.results, out.result)]

\* Effect.all over the monitors, one after the other, on the Ref.
RECURSIVE EvaluateAll(_, _, _, _)
EvaluateAll(r, config, inputs, acc) ==
    IF config = <<>> THEN acc
    ELSE EvaluateAll(r, Tail(config), Tail(inputs),
            Collected(acc, checkMonitor(r, Head(config), Head(inputs), acc.state)))

\* saveStateFile(finalState); return results
Saved(out) == [file |-> saveStateFile(out.state), results |-> out.results]

\* runMonitors: load, evaluate every monitor, save, return the results.
runMonitors(r, config, inputs, file) ==
    Saved(EvaluateAll(r, config, inputs,
                      [state |-> loadStateFile(file), results |-> <<>>]))

Reverse(seq) == [k \in 1..Len(seq) |-> seq[Len(seq) + 1 - k]]

\* Configurations of two monitors with different names, what each can find
\* under its key, and what each can meet.
OtherListName == "Manga"
PermuteConfigs ==
    {<<ListMonitor(ListName, mp), FieldsMonitor(FieldsName)>> : mp \in MaxPrices}
    \cup {<<ListMonitor(ListName, Amount(5000)), ListMonitor(OtherListName, Undefined)>>}
PriorsOf(monitor) ==
    IF monitor.type = "list"
    THEN {NoValue, JsonStringify(<<1>>), JsonStringify(<<1, 2>>)}
    ELSE {NoValue} \cup {hashData(snap) : snap \in Snapshots}
InputsOf(monitor) ==
    {FailedInput} \cup
    IF monitor.type = "fields"
    THEN {FieldsInput(snap, d) : snap \in Snapshots, d \in BOOLEAN}
    ELSE IF monitor.name = OtherListName
    THEN {ListInput(flat, d) : flat \in SeqsUpTo(Listings, 1), d \in BOOLEAN}
    ELSE {ListInput(flat, d) : flat \in Extractions, d \in BOOLEAN}
StateOf(entries) == SelectSeq(entries, LAMBDA e : e.value # NoValue)
PermuteStates(config) ==
    {StateOf(<<[key |-> monitorKey(config[o[1]].name), value |-> v[o[1]]],
               [key |-> monitorKey(config[o[2]].name), value |-> v[o[2]]]>>) :
        o \in {<<1, 2>>, <<2, 1>>},
        v \in {<<v1, v2>> : v1 \in PriorsOf(config[1]), v2 \in PriorsOf(config[2])}}
NoRun == [file |-> NoFile, results |-> <<>>]

InitPermute ==
    /\ RunInit
    /\ probe \in UNION {{[phase |-> "input", config |-> c, inputs |-> <<>>,
                           file |-> FileOf(st), run |-> NoRun, permuted |-> NoRun] :
                            st \in PermuteStates(c)} : c \in PermuteConfigs}

\* The run on the configuration as written, and the run on the same
\* monitors in the opposite order, each meeting the same pages and answers:
\* x1 is what the first monitor of the configuration meets, x2 the second.
ApplyPermute(x1, x2) ==
    /\ probe.phase = "input"
    /\ x1 \in InputsOf(probe.config[1])
    /\ x2 \in InputsOf(probe.config[2])
    /\ probe' = [probe EXCEPT
            !.phase = "output",
            !.inputs = <<x1, x2>>,
            !.run = runMonitors(rev, probe.config, <<x1, x2>>, probe.file),
            !.permuted = runMonitors(rev, Reverse(probe.config), <<x2, x1>>,
                                     probe.file)]
    /\ UNCHANGED <<rev, runs, stateFile, pc, monitors, loaded, stateRef, mpc,
                   results, sends, onSent, lastFetch, rel, everIds, fileOps>>

PermuteMeets ==
    {FailedInput}
    \cup {ListInput(flat, d) : flat \in Extractions, d \in BOOLEAN}
    \cup {FieldsInput(snap, d) : snap \in Snapshots, d \in BOOLEAN}

NextPermute == \E x1 \in PermuteMeets, x2 \in PermuteMeets : ApplyPermute(x1, x2)

SpecPermute == InitPermute /\ [][NextPermute]_vars

\* ------------------------------------------------------------------ bot.ts

\* The key of the bot's entry in state.json: a plain string, no digest.
BOT_UPDATE_KEY == [hash |-> "none", data |-> "__bot_last_update_id__"]

\* The two revisions of the bot: src/bot.ts dispatches workflows on
\* /trigger and knows /status; the earlier one (part_002) runs the monitor
\* script itself on /trigger.
BotRevisions == {"bot.ts", "part_002"}

MONITOR_WORKFLOWS == <<"monitor-instocktrades.yml", "monitor-ebay.yml">>
MONITOR_CONFIGS == <<"monitors-instocktrades.json", "monitors-ebay.json">>

\* String(n) of an update id, and Number(state[BOT_UPDATE_KEY] ?? "0").
StringOfNumber(n) == [kind |-> "decimal", ids |-> <<n>>, snap |-> <<>>]
NumberOf(raw) == IF raw.kind = "decimal" THEN raw.ids[1] ELSE 0

\* loadState and saveState of the bot: the same file, the same code as the
\* monitor script's.
loadState(file) ==
    IF ~file.exists THEN <<>>
    ELSE IF ~file.valid THEN <<>>
    ELSE file.text

saveState(state) == FileOf(state)

\* A Telegram update: its id, the chat of its message ("mine" is
\* TELEGRAM_CHAT_ID, "none" an update without a message) and the text.
Update(id, chat, text) == [update_id |-> id, chat |-> chat, text |-> text]

\* One call the bot made while handling an update, and whether it went
\* through: a sendMessage (arg names the text), a dispatchWorkflow or a
\* getLatestWorkflowRun (arg is the workflow file), an execFileSync of the
\* monitor script (arg is the configuration file).
Act(op, arg, ok) == [op |-> op, arg |-> arg, ok |-> ok]

\* What handling one update came to: the calls made, whether main was left
\* by an exception, and state.json afterwards.
Outcome(acts, aborted, file) == [acts |-> acts, aborted |-> aborted, file |-> file]

\* await sendMessage(...) as the last statement of a branch: a rejected
\* fetch leaves main.
SendLast(acts, arg, ok, file) ==
    Outcome(Append(acts, Act("sendMessage", arg, ok)), ~ok, file)

\* for (const workflow of MONITOR_WORKFLOWS) await dispatchWorkflow(...):
\* the first one that throws ends the loop.  net lists the fates of the
\* calls still to come.
RECURSIVE DispatchAll(_, _, _)
DispatchAll(workflows, net, acts) ==
    IF workflows = <<>> THEN [acts |-> acts, threw |-> FALSE, net |-> net]
    ELSE IF Head(net)
    THEN DispatchAll(Tail(workflows), Tail(net),
                     Append(acts, Act("dispatchWorkflow", Head(workflows), TRUE)))
    ELSE [acts |-> Append(acts, Act("dispatchWorkflow", Head(workflows), FALSE)),
          threw |-> TRUE, net |-> Tail(net)]

\* The rest of the try block of /trigger after the loop d, and its catch.
TriggerEnd(d, file) ==
    IF d.threw
    THEN SendLast(d.acts, "trigger_failed", Head(d.net), file)
    ELSE IF Head(d.net)
    THEN Outcome(Append(d.acts, Act("sendMessage", "dispatched", TRUE)), FALSE, file)
    ELSE SendLast(Append(d.acts, Act("sendMessage", "dispatched", FALSE)),
                  "trigger_failed", Head(Tail(d.net)), file)

\* /trigger in src/bot.ts.
HandleTrigger(net, file) ==
    IF ~Head(net)
    THEN Outcome(<<Act("sendMessage", "triggering", FALSE)>>, TRUE, file)
    ELSE TriggerEnd(DispatchAll(MONITOR_WORKFLOWS, Tail(net),
                                <<Act("sendMessage", "triggering", TRUE)>>), file)

\* /status: Promise.all over getLatestWorkflowRun of every workflow, started
\* together; then the status message, or the catch's message.
HandleStatus(net, file) ==
    LET lookups == <<Act("getLatestWorkflowRun", MONITOR_WORKFLOWS[1], net[1]),
                     Act("getLatestWorkflowRun", MONITOR_WORKFLOWS[2], net[2])>>
    IN  IF ~(net[1] /\ net[2])
        THEN SendLast(lookups, "status_failed", net[3], file)
        ELSE IF net[3]
        THEN Outcome(Append(lookups, Act("sendMessage", "status", TRUE)), FALSE, file)
        ELSE SendLast(Append(lookups, Act("sendMessage", "status", FALSE)),
                      "status_failed", net[4], file)

\* What the two configuration files of the earlier revision hold: one list
\* monitor each.
BotConfigs == <<<<ListMonitor(ListName, Undefined)>>,
                <<ListMonitor(OtherListName, Undefined)>>>>

\* for (const config of MONITOR_CONFIGS) execFileSync("npx", [...]): the
\* monitor script runs to its end on state.json before the bot goes on, and
\* execFileSync throws when it exits with a code other than 0, which it
\* does when a result is an error (process.exit(results.some(...) ? 1 : 0)).
\* ran is the run of configuration k, inputs[k] what its monitor meets.
RECURSIVE ExecAll(_, _, _, _, _)
ExecOne(r, k, inputs, acts, ran) ==
    IF \A j \in 1..Len(ran.results) : ran.results[j].status # "error"
    THEN ExecAll(r, k + 1, inputs, ran.file,
                 Append(acts, Act("execFileSync", MONITOR_CONFIGS[k], TRUE)))
    ELSE [acts |-> Append(acts, Act("execFileSync", MONITOR_CONFIGS[k], FALSE)),
          threw |-> TRUE, file |-> ran.file]
ExecAll(r, k, inputs, file, acts) ==
    IF k > Len(MONITOR_CONFIGS) THEN [acts |-> acts, threw |-> FALSE, file |-> file]
    ELSE ExecOne(r, k, inputs, acts,
                 runMonitors(r, BotConfigs[k], <<inputs[k]>>, file))

\* /trigger in the earlier revision: no try around the runs e.
TriggerRan(e, ok) ==
    IF e.threw THEN Outcome(e.acts, TRUE, e.file)
    ELSE SendLast(e.acts, "done", ok, e.file)

HandleTriggerLocal(r, net, inputs, file) ==
    IF ~Head(net)
    THEN Outcome(<<Act("sendMessage", "running", FALSE)>>, TRUE, file)
    ELSE TriggerRan(ExecAll(r, 1, inputs, file,
                            <<Act("sendMessage", "running", TRUE)>>), net[2])

\* HandleUpdate as it would be without the test of the chat.
HandleUpdateAnyChat(bot, r, update, net, inputs, file) ==
    IF update.text = "/test" THEN SendLast(<<>>, "alive", Head(net), file)
    ELSE IF update.text = "/trigger" /\ bot = "bot.ts" THEN HandleTrigger(net, file)
    ELSE IF update.text = "/trigger" THEN HandleTriggerLocal(r, net, inputs, file)
    ELSE IF update.text = "/status" /\ bot = "bot.ts" THEN HandleStatus(net, file)
    ELSE Outcome(<<>>, FALSE, file)

\* The body of the loop after newLastId is raised: updates without a
\* message or from another chat are skipped, then the command is told by
\* its text.
HandleUpdate(bot, r, update, net, inputs, file) ==
    IF update.chat # "mine" THEN Outcome(<<>>, FALSE, file)
    ELSE IF update.text = "/test" THEN SendLast(<<>>, "alive", Head(net), file)
    ELSE IF update.text = "/trigger" /\ bot = "bot.ts" THEN HandleTrigger(net, file)
    ELSE IF update.text = "/trigger" THEN HandleTriggerLocal(r, net, inputs, file)
    ELSE IF update.text = "/status" /\ bot = "bot.ts" THEN HandleStatus(net, file)
    ELSE Outcome(<<>>, FALSE, file)

\* freshState[BOT_UPDATE_KEY] = String(newLastId) on the state as it would be
\* if the state loaded at the start of main were written back.
FinalStateStale(state, fresh, newLastId) ==
    Put(state, BOT_UPDATE_KEY, StringOfNumber(newLastId))

\* const freshState = loadState(); freshState[BOT_UPDATE_KEY] =
\* String(newLastId): `state` is what main loaded at its start, `fresh` what
\* it loads after the loop.
FinalState(state, fresh, newLastId) ==
    Put(fresh, BOT_UPDATE_KEY, StringOfNumber(newLastId))

\* ------------------------------------- the bot and the monitor script
\* One state.json, the bot script run again and again, Telegram holding the
\* updates that arrived, and (in SpecShared) the monitor script run on its
\* own schedule.  probe holds it all:
\*   bot       the revision of the bot
\*   file      state.json
\*   arrived   the updates Telegram holds, update_id rising
\*   run       how many bot runs were started
\*   bpc       the bot: "idle" (never ran), "handle" (in the loop, at
\*             batch[k]), "load" (after the loop), "save" (after the final
\*             loadState), "saved", "returned" (main returned early),
\*             "aborted" (main was left by an exception)
\*   state, lastId, batch, k, newLastId, fresh   main's variables
\*   last, acts   the update handled last and the calls made for it
\*   handled   per update_id, the bot runs in which a call made for it went
\*             through
\*   mon       the monitor script on its own: pc is "idle", "loaded" or
\*             "saved"; mem what it loaded

MaxUpdates == 2
MaxBotRuns == 2

NoUpdate == Update(0, "none", "")
UpdateKinds ==
    {<<"mine", "/test">>, <<"mine", "/trigger">>, <<"mine", "/status">>,
     <<"other", "/trigger">>, <<"none", "">>}
\* The fates of the calls over the network that handling one update makes,
\* in the order they are made: at most five (/trigger of src/bot.ts).
NetFates == [1..5 -> BOOLEAN]
BotMeets == {FailedInput, ListInput(<<Item(1, Price50)>>, TRUE)}

BotIdle == probe.bpc \in {"idle", "saved", "returned", "aborted"}

\* getUpdates?offset=n: the updates with update_id >= n.
getUpdates(arrived, offset) == SelectSeq(arrived, LAMBDA u : u.update_id >= offset)

InitBot ==
    /\ RunInit
    /\ probe \in {[phase |-> "bot", bot |-> b, file |-> NoFile, arrived |-> <<>>,
                   run |-> 0, bpc |-> "idle", state |-> <<>>, lastId |-> 0,
                   batch |-> <<>>, k |-> 0, newLastId |-> 0, fresh |-> <<>>,
                   last |-> NoUpdate, acts |-> <<>>,
                   handled |-> [id \in 1..MaxUpdates |-> {}],
                   mon |-> [pc |-> "idle", mem |-> <<>>]] :
                    b \in BotRevisions}

BotFrame ==
    UNCHANGED <<rev, runs, stateFile, pc, monitors, loaded, stateRef, mpc,
                results, sends, onSent, lastFetch, rel, everIds, fileOps>>

\* Somebody writes to the bot, or Telegram records some other update.
Arrive(chat, text) ==
    /\ probe.phase = "bot"
    /\ Len(probe.arrived) < MaxUpdates
    /\ probe' = [probe EXCEPT
            !.arrived = Append(@, Update(Len(@) + 1, chat, text))]
    /\ BotFrame

\* main up to the loop: it returns without the credentials, when
\* getUpdates is not answered with ok, and when there is no update.
BotStart(creds, answer) ==
    /\ probe.phase = "bot"
    /\ BotIdle
    /\ probe.run < MaxBotRuns
    /\ LET state == IF creds THEN loadState(probe.file) ELSE <<>>
           lastId == NumberOf(Get(state, BOT_UPDATE_KEY))
           result == IF creds /\ answer = "updates"
                     THEN getUpdates(probe.arrived, lastId + 1) ELSE <<>>
       IN  probe' = [probe EXCEPT
                !.run = @ + 1,
                !.bpc = IF result = <<>> THEN "returned" ELSE "handle",
                !.state = state,
                !.lastId = lastId,
                !.batch = result,
                !.k = IF result = <<>> THEN 0 ELSE 1,
                !.newLastId = lastId,
                !.fresh = <<>>,
                !.last = NoUpdate,
                !.acts = <<>>]
    /\ BotFrame

\* How many calls over the network handling the update can come to, and
\* whether it runs the monitor script: fates and inputs beyond that are
\* never looked at, so one choice of them stands for all.
Calls(bot, update) ==
    IF update.chat # "mine" THEN 0
    ELSE IF update.text = "/test" THEN 1
    ELSE IF update.text = "/trigger" THEN (IF bot = "bot.ts" THEN 5 ELSE 2)
    ELSE IF update.text = "/status" /\ bot = "bot.ts" THEN 4
    ELSE 0
RunsMonitors(bot, update) ==
    bot = "part_002" /\ update.chat = "mine" /\ update.text = "/trigger"

\* One turn of the loop: newLastId is raised, then the update is handled,
\* which comes to `out`.
BotHandle(net, inputs) ==
    /\ probe.phase = "bot"
    /\ probe.bpc = "handle"
    /\ \A j \in 1..5 : j > Calls(probe.bot, probe.batch[probe.k]) => net[j]
    /\ ~RunsMonitors(probe.bot, probe.batch[probe.k])
            => inputs = <<FailedInput, FailedInput>>
    /\ LET update == probe.batch[probe.k]
           out == HandleUpdate(probe.bot, rev, update, net, inputs, probe.file)
       IN  probe' = [probe EXCEPT
                !.newLastId = IF update.update_id > @ THEN update.update_id ELSE @,
                !.last = update,
                !.acts = out.acts,
                !.file = out.file,
                !.handled = IF \A j \in 1..Len(out.acts) : ~out.acts[j].ok THEN @
                            ELSE [@ EXCEPT ![update.update_id] = @ \cup {probe.run}],
                !.k = IF out.aborted THEN @ ELSE @ + 1,
                !.bpc = IF out.aborted THEN "aborted"
                        ELSE IF probe.k = Len(probe.batch) THEN "load"
                        ELSE "handle"]
    /\ BotFrame

\* const freshState = loadState()
BotLoad ==
    /\ probe.phase = "bot"
    /\ probe.bpc = "load"
    /\ probe' = [probe EXCEPT !.bpc = "save", !.fresh = loadState(probe.file)]
    /\ BotFrame

\* freshState[BOT_UPDATE_KEY] = String(newLastId); saveState(freshState)
BotSave ==
    /\ probe.phase = "bot"
    /\ probe.bpc = "save"
    /\ probe' = [probe EXCEPT
            !.bpc = "saved",
            !.fresh = FinalState(probe.state, probe.fresh, probe.newLastId),
            !.file = saveState(FinalState(probe.state, probe.fresh,
                                          probe.newLastId))]
    /\ BotFrame

\* The monitor script started on its own schedule: loadStateFile.
MonLoad ==
    /\ probe.phase = "bot"
    /\ probe.mon.pc # "loaded"
    /\ probe' = [probe EXCEPT
            !.mon = [pc |-> "loaded", mem |-> loadStateFile(probe.file)]]
    /\ BotFrame

\* The rest of its run: the monitors are evaluated on what was loaded and
\* the final state is saved.
MonSave(x) ==
    /\ probe.phase = "bot"
    /\ probe.mon.pc = "loaded"
    /\ LET ran == Saved(EvaluateAll(rev, BotConfigs[1], <<x>>,
                                    [state |-> probe.mon.mem, results |-> <<>>]))
       IN  probe' = [probe EXCEPT !.mon = [pc |-> "saved", mem |-> @.mem],
                                  !.file = ran.file]
    /\ BotFrame

NextBot ==
    \/ \E kind \in UpdateKinds : Arrive(kind[1], kind[2])
    \/ \E creds \in BOOLEAN, answer \in {"rejected", "not_ok", "updates"} :
          BotStart(creds, answer)
    \/ \E net \in NetFates, x1 \in BotMeets, x2 \in BotMeets :
          BotHandle(net, <<x1, x2>>)
    \/ BotLoad
    \/ BotSave

SpecBot == InitBot /\ [][NextBot]_vars

\* The bot and the monitor script of part_003 on the same state.json, each
\* on its own schedule.
InitShared == InitBot /\ rev = "part_003"

NextShared ==
    \/ NextBot
    \/ MonLoad
    \/ \E x \in BotMeets : MonSave(x)

SpecShared == InitShared /\ [][NextShared]_vars

\* ----------------------------- one monitor's evaluation among other entries

\* What a run can find in state.json beside the monitor's own entry: the
\* bot's entry and another monitor's, in any order with its own.
FrameMonitors ==
    {ListMonitor(ListName, mp) : mp \in MaxPrices} \cup {FieldsMonitor(FieldsName)}
BotEntries == {NoValue, StringOfNumber(1), StringOfNumber(2)}
OtherEntries == {NoValue, JsonStringify(<<2>>)}
Orders3 ==
    {<<1, 2, 3>>, <<1, 3, 2>>, <<2, 1, 3>>, <<2, 3, 1>>, <<3, 1, 2>>, <<3, 2, 1>>}
FrameEntries(monitor, own, bot, other) ==
    <<[key |-> monitorKey(monitor.name), value |-> own],
      [key |-> BOT_UPDATE_KEY, value |-> bot],
      [key |-> monitorKey(OtherListName), value |-> other]>>
Ordered(entries, o) == <<entries[o[1]], entries[o[2]], entries[o[3]]>>
FrameStates(monitor) ==
    {StateOf(Ordered(FrameEntries(monitor, own, bot, other), o)) :
        own \in PriorsOf(monitor), bot \in BotEntries, other \in OtherEntries,
        o \in Orders3}

InitFrame ==
    /\ RunInit
    /\ probe \in UNION {{[phase |-> "input", monitor |-> m, file |-> FileOf(st),
                           input |-> FailedInput, after |-> <<>>, run |-> NoRun] :
                            st \in FrameStates(m)} : m \in FrameMonitors}

\* checkMonitor on the Ref that holds what was loaded, and the whole run of
\* a configuration with this one monitor.
EvaluateFrame(x) ==
    /\ probe.phase = "input"
    /\ x \in InputsOf(probe.monitor)
    /\ probe' = [probe EXCEPT
            !.phase = "output",
            !.input = x,
            !.after = checkMonitor(rev, probe.monitor, x,
                                   loadStateFile(probe.file)).state,
            !.run = runMonitors(rev, <<probe.monitor>>, <<x>>, probe.file)]
    /\ UNCHANGED <<rev, runs, stateFile, pc, monitors, loaded, stateRef, mpc,
                   results, sends, onSent, lastFetch, rel, everIds, fileOps>>

NextFrame == \E x \in PermuteMeets : EvaluateFrame(x)

SpecFrame == InitFrame /\ [][NextFrame]_vars

\* ------------------------------------------------------------ telegram.ts

TELEGRAM_MAX_MESSAGE_LEN == 4096
TELEGRAM_SAFE_CHUNK_LEN == 3800

NewLine == "\n"

\* text.split("\n"): the k-th line lies between the (k-1)-th and the k-th
\* newline; a text without newline is one line, the empty text one empty line.
NewLinesOf(text) == {p \in 1..Len(text) : text[p] = NewLine}
NthNewLine(text, k) ==
    IF k = 0 THEN 0
    ELSE IF k > Cardinality(NewLinesOf(text)) THEN Len(text) + 1
    ELSE CHOOSE p \in NewLinesOf(text) :
            Cardinality({q \in NewLinesOf(text) : q < p}) = k - 1
Split(text) ==
    [k \in 1..(Cardinality(NewLinesOf(text)) + 1) |->
        SubSeq(text, NthNewLine(text, k - 1) + 1, NthNewLine(text, k) - 1)]

\* parts.join("\n")
RECURSIVE Join(_)
Join(parts) ==
    IF Len(parts) = 0 THEN <<>>
    ELSE IF Len(parts) = 1 THEN parts[1]
    ELSE parts[1] \o <<NewLine>> \o Join(Tail(parts))

\* Slices as it would be without the fallback for long lines.
SlicesWhole(line, maxLen) == <<line>>

\* for (let i = 0; i < line.length; i += maxLen) chunks.push(line.slice(i, i + maxLen))
RECURSIVE Slices(_, _)
Slices(line, maxLen) ==
    IF Len(line) = 0 THEN <<>>
    ELSE IF Len(line) <= maxLen THEN <<line>>
    ELSE <<SubSeq(line, 1, maxLen)>> \o Slices(SubSeq(line, maxLen + 1, Len(line)), maxLen)

\* The loop of chunkTelegramMessage over lines[k..], and the final push.
\* `current` is tested for truthiness: the empty string counts as no chunk.
RECURSIVE ChunkLines(_, _, _, _, _)
ChunkLines(lines, k, chunks, current, maxLen) ==
    IF k > Len(lines)
    THEN IF current # <<>> THEN Append(chunks, current) ELSE chunks
    ELSE
    LET line == lines[k]
        next == IF current # <<>> THEN current \o <<NewLine>> \o line ELSE line
        pushed == IF current # <<>> THEN Append(chunks, current) ELSE chunks
    IN  IF Len(next) <= maxLen
        THEN ChunkLines(lines, k + 1, chunks, next, maxLen)
        ELSE IF Len(line) <= maxLen
        THEN ChunkLines(lines, k + 1, pushed, line, maxLen)
        ELSE ChunkLines(lines, k + 1, pushed \o Slices(line, maxLen), <<>>, maxLen)

chunkTelegramMessage(text, maxLen) ==
    IF Len(text) <= maxLen THEN <<text>>
    ELSE ChunkLines(Split(text), 1, <<>>, <<>>, maxLen)

\* The parts sendMessage posts: chunkTelegramMessage(text).flatMap(...).
\* safeLen is the default maxLen, TELEGRAM_SAFE_CHUNK_LEN in the program.
RECURSIVE FlatMapParts(_)
FlatMapParts(parts) ==
    IF Len(parts) = 0 THEN <<>>
    ELSE (IF Len(Head(parts)) <= TELEGRAM_MAX_MESSAGE_LEN
          THEN <<Head(parts)>>
          ELSE chunkTelegramMessage(Head(parts), TELEGRAM_MAX_MESSAGE_LEN))
         \o FlatMapParts(Tail(parts))
MessageParts(text, safeLen) == FlatMapParts(chunkTelegramMessage(text, safeLen))

\* Message texts: every text of up to MaxTextLen characters over two letters
\* and the newline, chunked at 1..MaxChunkLen; and long texts of up to three
\* lines, chunked at TELEGRAM_SAFE_CHUNK_LEN.
Letters == {"a", "b"}
ShortTexts == SeqsUpTo(Letters \cup {NewLine}, MaxTextLen)
LineOf(n) == [k \in 1..n |-> "a"]
LongLines == {LineOf(0), LineOf(1899), LineOf(1900), LineOf(3800), LineOf(3801),
              LineOf(8193)}
LongTexts == {Join(lines) : lines \in SeqsUpTo(LongLines, 3) \ {<<>>}}
ChunkInputs ==
    {[text |-> t, maxLen |-> n] : t \in ShortTexts, n \in 1..MaxChunkLen}
    \cup {[text |-> t, maxLen |-> TELEGRAM_SAFE_CHUNK_LEN] : t \in LongTexts}

\* One call of chunkTelegramMessage, and of the parts of sendMessage.
InitChunk ==
    /\ RunInit
    /\ probe \in {[phase |-> "input", text |-> in.text, maxLen |-> in.maxLen,
                   chunks |-> <<>>, parts |-> <<>>] : in \in ChunkInputs}

ApplyChunk ==
    /\ probe.phase = "input"
    /\ probe' = [probe EXCEPT !.phase = "output",
                    !.chunks = chunkTelegramMessage(probe.text, probe.maxLen),
                    !.parts = MessageParts(probe.text, probe.maxLen)]
    /\ UNCHANGED <<rev, runs, stateFile, pc, monitors, loaded, stateRef, mpc,
                   results, sends, onSent, lastFetch, rel, everIds, fileOps>>

NextChunk == ApplyChunk

SpecChunk == InitChunk /\ [][NextChunk]_vars

\* ------------------------------------------------- sendMessage on its own

\* A response of the Telegram API to one POST: its status ("failed" when
\* fetch itself rejects) and, in the body of a 429, parameters.retry_after.
NoRetryAfter == [present |-> FALSE, secs |-> 0]
RetryAfter(secs) == [present |-> TRUE, secs |-> secs]
Responses ==
    {[status |-> st, retryAfter |-> NoRetryAfter] : st \in {"200", "500", "failed"}}
    \cup {[status |-> "429", retryAfter |-> ra] : ra \in {NoRetryAfter, RetryAfter(3)}}

\* WaitMs as it would be without the margin.
WaitMsBare(retryAfter) ==
    (IF retryAfter.present THEN retryAfter.secs ELSE 1) * 1000

\* (json.parameters?.retry_after ?? 1) * 1000 + 200
WaitMs(retryAfter) ==
    (IF retryAfter.present THEN retryAfter.secs ELSE 1) * 1000 + 200

\* The calls sendMessage makes, in order: fetch (with the response it got)
\* and setTimeout.
FetchCall(k, response) ==
    [op |-> "fetch", part |-> k, status |-> response.status,
     retryAfter |-> response.retryAfter, ms |-> 0]
WaitCall(k, ms) ==
    [op |-> "setTimeout", part |-> k, status |-> "", retryAfter |-> NoRetryAfter,
     ms |-> ms]

\* The texts sent, the limits they are chunked at, and whether the revision
\* of telegram.ts chunks at all (lines 40-125) or posts the text whole
\* (lines 1-39).
SendTexts == {<<"a">>, <<"a", NewLine, "b">>, <<"a", "b", NewLine, "a", "b">>}
SendInputs ==
    {[text |-> t, safeLen |-> n, chunked |-> c, creds |-> cr] :
        t \in SendTexts, n \in 1..MaxChunkLen, c \in BOOLEAN, cr \in BOOLEAN}

\* The evaluation that calls sendMessage: checkListMonitor of a monitor whose
\* entry holds id 1 and whose pages now show items 1 and 2.  The Ref is
\* updated before the message is handed over.
SendMonitor == ListMonitor(ListName, Undefined)
SendDiff ==
    ListDiff("part_003", SendMonitor, <<Item(1, Price50), Item(2, Price50)>>,
             Put(<<>>, monitorKey(ListName), JsonStringify(<<1>>)))

InitSend ==
    /\ RunInit
    /\ probe \in {[phase |-> "start", in |-> in, parts |-> <<>>, k |-> 0,
                   calls |-> <<>>, outcome |-> "none", logged |-> <<>>,
                   returned |-> NoResult, saved |-> NoFile] : in \in SendInputs}

\* BeginSend as it would be if missing credentials were an error of the send.
BeginSendRejects ==
    /\ probe.phase = "start"
    /\ probe' =
         IF ~probe.in.creds
         THEN [probe EXCEPT !.phase = "ended", !.outcome = "NotifyError"]
         ELSE LET parts == IF probe.in.chunked
                           THEN MessageParts(probe.in.text, probe.in.safeLen)
                           ELSE <<probe.in.text>>
              IN  IF Len(parts) = 0
                  THEN [probe EXCEPT !.phase = "ended", !.outcome = "sent"]
                  ELSE [probe EXCEPT !.phase = "fetch", !.parts = parts, !.k = 1]

\* TELEGRAM_TOKEN or TELEGRAM_CHAT_ID is missing: the text is logged and
\* sendMessage returns.  Otherwise the parts are computed and the loop begins.
BeginSend ==
    /\ probe.phase = "start"
    /\ probe' =
         IF ~probe.in.creds
         THEN [probe EXCEPT !.phase = "ended", !.outcome = "skipped",
                            !.logged = <<probe.in.text>>]
         ELSE LET parts == IF probe.in.chunked
                           THEN MessageParts(probe.in.text, probe.in.safeLen)
                           ELSE <<probe.in.text>>
              IN  IF Len(parts) = 0
                  THEN [probe EXCEPT !.phase = "ended", !.outcome = "sent"]
                  ELSE [probe EXCEPT !.phase = "fetch", !.parts = parts, !.k = 1]

\* After an ok response to part k: the next part, or the end of the loop.
NextPart(p) ==
    IF p.k < Len(p.parts)
    THEN [p EXCEPT !.phase = "fetch", !.k = p.k + 1]
    ELSE [p EXCEPT !.phase = "ended", !.outcome = "sent"]

\* FirstResponse as it would be if a rejected part were skipped and the loop
\* went on to the next part.
FirstResponseSkipsPart(response) ==
    /\ probe.phase = "fetch"
    /\ LET p == [probe EXCEPT !.calls = Append(probe.calls, FetchCall(probe.k, response))]
       IN  probe' =
             IF response.status = "429"
             THEN [p EXCEPT !.phase = "wait"]
             ELSE NextPart(p)

\* `let r = await fetch(url, opts)` and the tests of r.status and r.ok.
FirstResponse(response) ==
    /\ probe.phase = "fetch"
    /\ LET p == [probe EXCEPT !.calls = Append(probe.calls, FetchCall(probe.k, response))]
       IN  probe' =
             IF response.status = "429"
             THEN [p EXCEPT !.phase = "wait"]
             ELSE IF response.status = "200" THEN NextPart(p)
             ELSE [p EXCEPT !.phase = "ended", !.outcome = "NotifyError"]

\* await new Promise((res) => setTimeout(res, wait))
Wait ==
    /\ probe.phase = "wait"
    /\ probe' = [probe EXCEPT !.phase = "refetch",
            !.calls = Append(probe.calls,
                WaitCall(probe.k, WaitMs(probe.calls[Len(probe.calls)].retryAfter)))]

\* `r = await fetch(url, opts)` after the wait, and the test of r.ok.
SecondResponse(response) ==
    /\ probe.phase = "refetch"
    /\ LET p == [probe EXCEPT !.calls = Append(probe.calls, FetchCall(probe.k, response))]
       IN  probe' =
             IF response.status = "200" THEN NextPart(p)
             ELSE [p EXCEPT !.phase = "ended", !.outcome = "NotifyError"]

\* sendMessage has ended: checkListMonitor returns new_items, or its
\* catchAll turns the NotifyError into an error result; runMonitors then
\* saves the Ref.
AfterSend ==
    /\ probe.phase = "ended"
    /\ probe.returned = NoResult
    /\ probe' = [probe EXCEPT
            !.returned = IF probe.outcome = "NotifyError"
                         THEN ErrorResult(SendMonitor, "NotifyError")
                         ELSE SendDiff.result,
            !.saved = saveStateFile(SendDiff.state)]

NextSend ==
    /\ \/ BeginSend
       \/ \E response \in Responses : FirstResponse(response)
       \/ Wait
       \/ \E response \in Responses : SecondResponse(response)
       \/ AfterSend
    /\ UNCHANGED <<rev, runs, stateFile, pc, monitors, loaded, stateRef, mpc,
                   results, sends, onSent, lastFetch, rel, everIds, fileOps>>

SpecSend == InitSend /\ [][NextSend]_vars

\* -------------------------------------------- formatNewItems on its own

\* String.prototype.toLowerCase on the letters the titles are written in.
LowerChar(c) ==
    CASE c = "A" -> "a"
      [] c = "B" -> "b"
      [] c = "X" -> "x"
      [] OTHER -> c
toLowerCase(str) == [k \in 1..Len(str) |-> LowerChar(str[k])]

\* String.prototype.includes
Includes(str, sub) ==
    \E p \in 0..(Len(str) - Len(sub)) : SubSeq(str, p + 1, p + Len(sub)) = sub

Others == <<"O", "t", "h", "e", "r", "s">>

\* detectSection over sections[k..].
RECURSIVE DetectFrom(_, _, _)
DetectFrom(lower, sections, k) ==
    IF k > Len(sections) THEN Others
    ELSE IF Includes(lower, toLowerCase(sections[k])) THEN sections[k]
    ELSE DetectFrom(lower, sections, k + 1)
\* detectSection as it would be if the title were not lowered.
detectSectionAsWritten(title, sections) == DetectFrom(title, sections, 1)

detectSection(title, sections) == DetectFrom(toLowerCase(title), sections, 1)

\* item.fields["title"] ?? item.id
TitleOf(item) == IF item.title = NullField THEN item.id ELSE item.title

\* The Map `groups`: its entries in insertion order, each the items pushed.
RECURSIVE GroupFrom(_, _, _, _)
GroupFrom(items, sections, k, groups) ==
    IF k > Len(items) THEN groups
    ELSE
    LET section == detectSection(TitleOf(items[k]), sections)
        has == \E g \in 1..Len(groups) : groups[g].section = section
        made == IF has THEN groups
                ELSE Append(groups, [section |-> section, items |-> <<>>])
        pushed == [g \in 1..Len(made) |->
                     IF made[g].section = section
                     THEN [made[g] EXCEPT !.items = Append(made[g].items, items[k])]
                     ELSE made[g]]
    IN  GroupFrom(items, sections, k + 1, pushed)
GroupsHas(groups, section) == \E g \in 1..Len(groups) : groups[g].section = section
GroupsGet(groups, section) ==
    groups[CHOOSE g \in 1..Len(groups) : groups[g].section = section].items

\* The lines of a message, by what they are.
NoTitled == [id |-> <<>>, title |-> NullField]
HeaderLine == [kind |-> "header", section |-> <<>>, item |-> NoTitled]
BlankLine == [kind |-> "blank", section |-> <<>>, item |-> NoTitled]
HeadingLine(section) == [kind |-> "heading", section |-> section, item |-> NoTitled]
ItemLine(item) == [kind |-> "item", section |-> <<>>, item |-> item]

RECURSIVE SectionLines(_, _, _)
SectionLines(ordered, groups, k) ==
    IF k > Len(ordered) THEN <<>>
    ELSE <<BlankLine, HeadingLine(ordered[k])>>
         \o [j \in 1..Len(GroupsGet(groups, ordered[k])) |->
                ItemLine(GroupsGet(groups, ordered[k])[j])]
         \o SectionLines(ordered, groups, k + 1)

\* formatNewItems(monitorName, items, sections): the lines it joins.
formatNewItemsLines(items, sections) ==
    IF Len(sections) = 0
    THEN <<HeaderLine, BlankLine>> \o [k \in 1..Len(items) |-> ItemLine(items[k])]
    ELSE
    LET groups == GroupFrom(items, sections, 1, <<>>)
        Has(section) == GroupsHas(groups, section)
        ordered == SelectSeq(sections, Has)
                   \o (IF GroupsHas(groups, Others) THEN <<Others>> ELSE <<>>)
    IN  <<HeaderLine>> \o SectionLines(ordered, groups, 1)

\* The new items of a notification: distinct ids, with titles that match
\* both keywords, the second only, none, or are missing (then the id, which
\* holds an x, stands in).
KeywordAx == <<"a", "x">>
KeywordX == <<"X">>
SectionConfigs == {<<>>, <<KeywordAx>>, <<KeywordX>>, <<KeywordAx, KeywordX>>,
                   <<KeywordX, KeywordAx>>}
FormatIds == {<<"x", "1">>, <<"q", "2">>, <<"q", "3">>}
FormatTitles == {<<"B", "A", "X">>, <<"x", "b">>, <<"b">>, NullField}
FormatItems == {[id |-> id, title |-> t] : id \in FormatIds, t \in FormatTitles}
FormatInputs ==
    {items \in SeqsUpTo(FormatItems, MaxFormatItems) :
        /\ Len(items) > 0
        /\ \A j, k \in 1..Len(items) : j # k => items[j].id # items[k].id}

InitFormat ==
    /\ RunInit
    /\ probe \in {[phase |-> "input", items |-> items, sections |-> sections,
                   lines |-> <<>>] :
                    items \in FormatInputs, sections \in SectionConfigs}

ApplyFormat ==
    /\ probe.phase = "input"
    /\ probe' = [probe EXCEPT !.phase = "output",
                    !.lines = formatNewItemsLines(probe.items, probe.sections)]
    /\ UNCHANGED <<rev, runs, stateFile, pc, monitors, loaded, stateRef, mpc,
                   results, sends, onSent, lastFetch, rel, everIds, fileOps>>

NextFormat == ApplyFormat

SpecFormat == InitFormat /\ [][NextFormat]_vars

\* The same with every kind of sections configuration: absent or empty,
\* distinct keywords, a keyword that is the word Others, a keyword listed
\* twice.
AnySectionConfigs ==
    SectionConfigs \cup {<<Others>>, <<KeywordX, Others>>, <<KeywordX, KeywordX>>}

InitFormatAny ==
    /\ RunInit
    /\ probe \in {[phase |-> "input", items |-> items, sections |-> sections,
                   lines |-> <<>>] :
                    items \in FormatInputs, sections \in AnySectionConfigs}

SpecFormatAny == InitFormatAny /\ [][NextFormat]_vars

\* ------------------------------------------- extractItemList on its own

\* An element matched by itemSelector: the value of the idAttribute on it
\* (null when absent, possibly empty), and its extracted url and price fields.
Element(attr, url, price) == [attr |-> attr, url |-> url, price |-> price]

\* /\/products\/([^/?]+)/.exec(urlVal): the capture of the leftmost match,
\* or null.
ProductsPrefix == <<"/", "p", "r", "o", "d", "u", "c", "t", "s", "/">>
CodeStarts(url) ==
    {p \in 1..Len(url) :
        /\ p > Len(ProductsPrefix)
        /\ SubSeq(url, p - Len(ProductsPrefix), p - 1) = ProductsPrefix
        /\ url[p] \notin {"/", "?"}}
ProductCode(url) ==
    IF CodeStarts(url) = {} THEN NullField
    ELSE LET start == CHOOSE p \in CodeStarts(url) : \A q \in CodeStarts(url) : p <= q
             stops == {q \in start..Len(url) : url[q] \in {"/", "?"}}
             end == IF stops = {} THEN Len(url) + 1
                    ELSE CHOOSE q \in stops : \A r \in stops : q <= r
         IN  SubSeq(url, start, end - 1)

\* The id of extractItemList: $(el).attr(idAttribute) ?? null when the
\* monitor names an idAttribute, else the product code of the url field.
ResolveId(el, idAttribute) ==
    IF idAttribute THEN el.attr
    ELSE IF el.url = NullField THEN NullField
    ELSE ProductCode(el.url)

\* IsTruthy as it would be if the id were compared with null alone.
IsNotNull(id) == id # NullField

\* `if (id)`: null and "" are falsy.
IsTruthy(id) == id # NullField /\ id # <<>>

\* `if (id) items.push({ id, url, fields })`.  The ids are decimal codes,
\* kept as the numbers they spell.
RECURSIVE extractItemList(_, _)
extractItemList(elements, idAttribute) ==
    IF Len(elements) = 0 THEN <<>>
    ELSE LET id == ResolveId(Head(elements), idAttribute)
             rest == extractItemList(Tail(elements), idAttribute)
         IN  IF ~IsTruthy(id) THEN rest
             ELSE <<Item(DigitsValue(id, 0), Head(elements).price)>> \o rest

\* The elements of a page: the idAttribute absent, empty, or 1 or 2; the url
\* field missing, with a product code (alone, or before a query), with
\* /products/ but no code, or without the segment.
ElementAttrs == {NullField, <<>>, <<"1">>, <<"2">>}
ElementUrls == {NullField,
                ProductsPrefix \o <<"3">>,
                ProductsPrefix \o <<"1", "?", "v">>,
                ProductsPrefix,
                ProductsPrefix \o <<"?", "q">>,
                <<"/", "c", "/", "3">>}
Elements == {Element(attr, url, Price50) : attr \in ElementAttrs, url \in ElementUrls}

\* A page is extracted and diffed against no entry, or against [1].
InitExtract ==
    /\ RunInit
    /\ probe \in {[phase |-> "input", elements |-> els, idAttribute |-> ia,
                   state |-> state, items |-> <<>>, out |-> NoDiff] :
                    els \in SeqsUpTo(Elements, MaxElements), ia \in BOOLEAN,
                    state \in {<<>>, <<[key |-> monitorKey(ListName),
                                        value |-> JsonStringify(<<1>>)]>>}}

ApplyExtract ==
    /\ probe.phase = "input"
    /\ LET items == extractItemList(probe.elements, probe.idAttribute)
       IN  probe' = [probe EXCEPT !.phase = "output", !.items = items,
                        !.out = ListDiff(rev, ListMonitor(ListName, Undefined),
                                         items, probe.state)]
    /\ UNCHANGED <<rev, runs, stateFile, pc, monitors, loaded, stateRef, mpc,
                   results, sends, onSent, lastFetch, rel, everIds, fileOps>>

NextExtract == ApplyExtract

SpecExtract == InitExtract /\ [][NextExtract]_vars

\* =================================================================== claims

\* Monitor i of the current run has returned its result.
Done(i) == pc = "running" /\ i \in 1..Len(monitors) /\ mpc[i] = "done"
AllDone == pc = "running" /\ \A i \in 1..Len(monitors) : mpc[i] = "done"
IsList(i) == monitors[i].type = "list"

\* The entry under monitor i's key: as loaded from the state file, and as
\* it stands in the Ref.
Prior(i) == Get(loaded, monitorKey(monitors[i].name))
Entry(i) == Get(stateRef, monitorKey(monitors[i].name))

\* What monitor i extracted in this run.
Fetched(i) == lastFetch[monitors[i].name]
ExtractedSome(i) ==
    /\ Fetched(i).st = "ok"
    /\ IsList(i) => Fetched(i).items # {}

IsAscending(ids) == \A k \in 1..(Len(ids) - 1) : ids[k] < ids[k + 1]
IdsIn(items) == {it.id : it \in items}

\* The string a successful evaluation of monitor i is to persist: the
\* ascending array of all extracted ids, or the hash of the snapshot.
IsBaseline(i, value) ==
    IF IsList(i)
    THEN /\ value.kind = "json"
         /\ IsAscending(value.ids)
         /\ Range(value.ids) = IdsIn(Fetched(i).items)
    ELSE value = [kind |-> "sha256", ids |-> <<>>, snap |-> Fetched(i).snap]

\* The step of FinishRun.
RunEnds == pc = "running" /\ pc' = "idle"

\* C1.  Idempotence: a monitor whose extraction equals the one of the run
\* before returns unchanged, hands nothing to sendMessage and leaves its
\* entry as loaded; and a run all of whose monitors extract what they
\* extracted the run before ends with state.json holding the text it held.
C1_Idempotent ==
    /\ [](\A i \in 1..2 : (Done(i) /\ rel[i].same) =>
            /\ results[i].status = "unchanged"
            /\ sends[i] = NoSend
            /\ Entry(i) = Prior(i))
    /\ [][(RunEnds /\ monitors # <<>> /\ \A i \in 1..Len(monitors) : rel[i].same)
            => stateFile' = stateFile]_vars

\* A second run of both monitors over unchanged pages has returned.
C1_Witness ==
    /\ AllDone
    /\ Len(monitors) = 2
    /\ \A i \in 1..2 : rel[i].same /\ results[i].status = "unchanged"
    /\ Fetched(1).items \cup Fetched(2).items # {}

\* C2.  First-run baseline as claimed: a monitor with no entry and a
\* non-empty extraction returns initialized, persists the sorted ids or the
\* hash, and hands no message to sendMessage.
C2_FirstRunSilent ==
    \A i \in 1..2 : (Done(i) /\ Prior(i) = NoValue /\ ExtractedSome(i)) =>
        /\ results[i].status = "initialized"
        /\ IsBaseline(i, Entry(i))
        /\ sends[i] = NoSend

\* C3.  As claimed: no item reported as new has an id that an earlier run
\* persisted for the monitor.
C3_NeverReportedTwice ==
    \A i \in 1..2 : (Done(i) /\ IsList(i)) =>
        IdsIn(Range(results[i].newItems)) \cap everIds[monitors[i].name] = {}

\* The stand-alone diff: its key, the entry it found, the merged items (the
\* last occurrence of each id in the flattened extraction), the items it
\* handed to formatNewItems and the entry it left.
ProbeKey == monitorKey(probe.monitor.name)
ProbePrior == Get(probe.state, ProbeKey)
ProbeMerged ==
    {probe.flat[k] : k \in {k \in 1..Len(probe.flat) :
        \A m \in (k + 1)..Len(probe.flat) : probe.flat[m].id # probe.flat[k].id}}
ProbeNew ==
    IF probe.out.send.kind = "new_items" THEN probe.out.send.items ELSE <<>>
ProbeEntry == Get(probe.out.state, ProbeKey)
ProbeDiffed ==
    probe.phase = "output" /\ ProbePrior # NoValue /\ ProbeMerged # {}

\* C4.  With a prior entry and a non-empty extraction, the new items are
\* exactly the merged items that pass the price filter and whose id is not
\* in the prior id array, in ascending id order; the result carries the
\* same list; and the entry becomes the ascending array of all merged ids.
C4_NewItemsExact ==
    ProbeDiffed =>
        /\ Range(ProbeNew) =
              {it \in ProbeMerged : /\ IsCandidate(it, probe.monitor.maxPrice)
                                    /\ it.id \notin Range(ProbePrior.ids)}
        /\ IsAscending([k \in 1..Len(ProbeNew) |-> ProbeNew[k].id])
        /\ probe.out.result.newItems = ProbeNew
        /\ ProbeEntry.kind = "json"
        /\ IsAscending(ProbeEntry.ids)
        /\ Range(ProbeEntry.ids) = IdsIn(ProbeMerged)

\* Prior [3]; the pages show item 2, then item 1; no filter: items 1 and 2
\* are reported in that order and [1, 2] is persisted.
C4_Witness ==
    /\ ProbeDiffed
    /\ probe.monitor.maxPrice = Undefined
    /\ ProbePrior.ids = <<3>>
    /\ [k \in 1..Len(probe.flat) |-> probe.flat[k].id] = <<2, 1>>
    /\ [k \in 1..Len(ProbeNew) |-> ProbeNew[k].id] = <<1, 2>>
    /\ ProbeEntry.ids = <<1, 2>>

\* C5.  Zero-extraction guard: a list monitor whose merged map is empty
\* returns unchanged, hands nothing to sendMessage, and leaves its entry,
\* present or absent, as loaded.
C5_ZeroExtraction ==
    \A i \in 1..2 :
        (Done(i) /\ IsList(i) /\ Fetched(i).st = "ok" /\ Fetched(i).items = {}) =>
            /\ results[i].status = "unchanged"
            /\ sends[i] = NoSend
            /\ Entry(i) = Prior(i)

\* A list monitor with an entry has extracted nothing and returned.
C5_Witness ==
    \E i \in 1..2 :
        /\ Done(i) /\ IsList(i)
        /\ Fetched(i).st = "ok" /\ Fetched(i).items = {}
        /\ Prior(i) # NoValue
        /\ results[i].status = "unchanged"

\* C6.  The price filter and the persisted identity: when a list monitor
\* extracts what it extracted the run before and only maxPrice differs, it
\* does not return new_items, and the entry each of the two runs persisted
\* is the ascending array of all merged ids.
C6_FilterKeepsIdentity ==
    \A i \in 1..2 :
        (/\ Done(i) /\ IsList(i)
         /\ rel[i].same /\ rel[i].priceChanged
         /\ Fetched(i).items # {}) =>
            /\ results[i].status # "new_items"
            /\ IsBaseline(i, Prior(i))
            /\ IsBaseline(i, Entry(i))

\* The filter was removed over unchanged pages that show an item above it.
C6_Witness ==
    \E i \in 1..2 :
        /\ Done(i) /\ IsList(i)
        /\ rel[i].same /\ rel[i].priceChanged
        /\ monitors[i].maxPrice = Undefined
        /\ Item(1, Price75) \in Fetched(i).items
        /\ results[i].status = "unchanged"

\* An item the price filter (of limit maxPrice, which is set) excludes: its
\* price is missing or unparsable, or parses to more than maxPrice.
Excluded(item, maxPrice) ==
    LET price == parsePrice(item.price)
    IN  price.kind # "number" \/ price.cents > maxPrice.cents

\* C7.  With maxPrice set, an item whose price is missing, unparsable or
\* above maxPrice is in no list of new items and in no message, but its id
\* is in the persisted array; an item priced exactly maxPrice is a
\* candidate: it is reported when its id is not in the prior array.
C7_PriceFilter ==
    (/\ probe.phase = "output"
     /\ probe.monitor.maxPrice # Undefined
     /\ ProbeMerged # {}) =>
        \A it \in ProbeMerged :
            /\ Excluded(it, probe.monitor.maxPrice) =>
                  /\ it \notin Range(probe.out.result.newItems)
                  /\ it \notin Range(probe.out.send.items)
                  /\ it.id \in Range(ProbeEntry.ids)
            /\ (/\ parsePrice(it.price) = probe.monitor.maxPrice
                /\ ProbePrior # NoValue
                /\ it.id \notin Range(ProbePrior.ids)) =>
                  /\ it \in Range(probe.out.result.newItems)
                  /\ it \in Range(probe.out.send.items)

\* maxPrice 50, prior [1]; the pages show item 3 without a price and item 2
\* at $50.00: item 2 alone is reported, and [2, 3] is persisted.
C7_Witness ==
    /\ probe.phase = "output"
    /\ probe.monitor.maxPrice = Amount(5000)
    /\ ProbePrior.ids = <<1>>
    /\ probe.flat = <<Item(3, NullField), Item(2, Price50)>>
    /\ ProbeNew = <<Item(2, Price50)>>
    /\ ProbeEntry.ids = <<2, 3>>

\* C8.  An item the run before extracted but excluded by price (above
\* maxPrice, or unparsable), and which now passes the filter, is not
\* reported as new.
C8_PriceDropNotNew ==
    \A i \in 1..2 : (Done(i) /\ IsList(i)) =>
        /\ rel[i].dropped \cap IdsIn(Range(results[i].newItems)) = {}
        /\ rel[i].dropped \cap IdsIn(Range(sends[i].msg.items)) = {}

\* Item 1 was above the filter in the run before and passes it now.
C8_Witness ==
    \E i \in 1..2 :
        /\ Done(i) /\ IsList(i)
        /\ rel[i].dropped = {1}
        /\ monitors[i].maxPrice = Amount(5000)
        /\ results[i].status \in {"unchanged", "new_items"}

\* C9.  As claimed: when a run ends, the state file holds under the key of
\* every monitor that returned error the value it held before the run.
C9_ErrorKeepsEntry ==
    [][RunEnds => \A i \in 1..Len(monitors) :
            results[i].status = "error" =>
                Get(loadStateFile(stateFile'), monitorKey(monitors[i].name))
                    = Get(loadStateFile(stateFile), monitorKey(monitors[i].name))]_vars

\* A fetch or an extraction of monitor i fails in this step.
FailureOf(i) ==
    /\ pc = "running"
    /\ i \in 1..Len(monitors)
    /\ mpc[i] = "fetch"
    /\ mpc'[i] = "done"
    /\ results'[i].status = "error"

\* Some evaluation of monitor j, whatever its pages yield.
Evaluate(j) ==
    \/ \E flat \in Extractions : checkListMonitor(j, flat)
    \/ \E current \in Snapshots : checkFieldsMonitor(j, current)

\* C10.  Error isolation: a fetch or extraction failure of a monitor gives
\* that monitor an error result naming the error and touches neither the
\* Ref nor any other monitor's progress, result or message; the monitors
\* after it can still be evaluated; and the run ends with a result for
\* every monitor.
C10_ErrorIsolated ==
    /\ [][\A i \in 1..2 : FailureOf(i) =>
            /\ results'[i] = Result(monitors[i].name, "error", NoCount, <<>>,
                                    results'[i].error)
            /\ results'[i].error \in {"FetchError", "ParseError"}
            /\ stateRef' = stateRef
            /\ pc' = "running"
            /\ \A j \in 1..Len(monitors) : j # i =>
                  /\ mpc'[j] = mpc[j]
                  /\ results'[j] = results[j]
                  /\ sends'[j] = sends[j]]_vars
    /\ [](\A j \in 1..2 :
            (/\ pc = "running"
             /\ j \in 1..Len(monitors)
             /\ mpc[j] = "fetch"
             /\ \A k \in 1..(j - 1) : mpc[k] = "done") => ENABLED Evaluate(j))
    /\ [][RunEnds => \A i \in 1..Len(monitors) :
            results[i].status \in {"initialized", "unchanged", "new_items", "error"}]_vars

\* The first monitor failed to fetch; the second was evaluated after it and
\* returned its own result.
C10_Witness ==
    /\ AllDone
    /\ Len(monitors) = 2
    /\ results[1].status = "error" /\ results[1].error = "FetchError"
    /\ results[2].status = "initialized"
    /\ Entry(1) = NoValue
    /\ Entry(2) # NoValue

\* C11.  As claimed: a run whose configuration cannot be read or parsed
\* completes with exactly one result, {name: "system", status: "error"};
\* no monitor is evaluated; and state.json is neither written nor changed.
C11_FatalRun ==
    /\ [](pc = "failed" =>
            /\ Len(results) = 1
            /\ results[1].name = "system"
            /\ results[1].status = "error"
            /\ monitors = <<>>
            /\ fileOps = <<>>)
    /\ [][pc' = "failed" => stateFile' = stateFile]_vars

\* C12.  While a run's monitors are evaluated, state.json has been loaded
\* exactly once and not saved; the load precedes every evaluation; a
\* process loads at most once and saves at most once, after the load; and
\* state.json is saved, or changes, only in a step taken when every monitor
\* has returned its result.
C12_ReadOnceWriteOnce ==
    /\ [](pc = "running" => fileOps = <<"loadStateFile">>)
    /\ [](fileOps \in {<<>>, <<"loadStateFile">>,
                        <<"loadStateFile", "saveStateFile">>})
    /\ [][fileOps' = <<"loadStateFile">> =>
            \/ fileOps' = fileOps
            \/ \A i \in 1..Len(monitors') : mpc'[i] = "fetch"]_vars
    /\ [][(stateFile' # stateFile \/ fileOps' = Append(fileOps, "saveStateFile"))
            => AllDone]_vars

\* A run of two monitors has ended: one load, then one save of both entries.
C12_Witness ==
    /\ pc = "idle"
    /\ fileOps = <<"loadStateFile", "saveStateFile">>
    /\ stateFile.valid
    /\ Len(stateFile.text) = 2

\* C13.  The key set of the StateMap only grows: no step removes a key from
\* state.json, a run's Ref holds every key that was loaded, and no step of
\* a run removes a key from the Ref.
C13_KeysOnlyGrow ==
    /\ [][Keys(stateFile.text) \subseteq Keys(stateFile'.text)]_vars
    /\ [](pc = "running" =>
            /\ Keys(loaded) = Keys(stateFile.text)
            /\ Keys(loaded) \subseteq Keys(stateRef))
    /\ [][(pc = "running" /\ pc' = "running") =>
            Keys(stateRef) \subseteq Keys(stateRef')]_vars

\* A run configured with the list monitor alone, which ended in error, still
\* holds the entry of the fields monitor of an earlier run beside its own.
C13_Witness ==
    /\ AllDone
    /\ Len(monitors) = 1
    /\ IsList(1)
    /\ results[1].status = "error"
    /\ Keys(stateRef) = {monitorKey(ListName), monitorKey(FieldsName)}
    /\ Keys(stateFile.text) = Keys(stateRef)

C16_ChunkRoundTrip ==
    (/\ probe.phase = "output"
     /\ \A k \in 1..Len(Split(probe.text)) :
            Len(Split(probe.text)[k]) <= probe.maxLen) =>
        Join(probe.chunks) = probe.text

\* C17.  Every chunk of chunkTelegramMessage, and every part sendMessage
\* posts, is at most maxLen long, for every text and every maxLen >= 1; at
\* the program's limit a part is at most 3800 characters, which is below
\* the transport's 4096.
C17_ChunkSizeBound ==
    probe.phase = "output" =>
        /\ probe.maxLen >= 1
        /\ \A k \in 1..Len(probe.chunks) : Len(probe.chunks[k]) <= probe.maxLen
        /\ \A k \in 1..Len(probe.parts) : Len(probe.parts[k]) <= probe.maxLen
        /\ probe.maxLen = TELEGRAM_SAFE_CHUNK_LEN =>
                \A k \in 1..Len(probe.parts) :
                    /\ Len(probe.parts[k]) <= 3800
                    /\ Len(probe.parts[k]) < TELEGRAM_MAX_MESSAGE_LEN

\* A line of 1899 characters, then one of 8193: at 3800 the long line is cut
\* into two full parts and a rest.
C17_Witness ==
    /\ probe.phase = "output"
    /\ probe.maxLen = TELEGRAM_SAFE_CHUNK_LEN
    /\ probe.text = Join(<<LineOf(1899), LineOf(8193)>>)
    /\ probe.parts = <<LineOf(1899), LineOf(3800), LineOf(3800), LineOf(593)>>

\* The positions in the calls of sendMessage of the requests for part k.
RequestsFor(k) ==
    {j \in 1..Len(probe.calls) :
        probe.calls[j].op = "fetch" /\ probe.calls[j].part = k}
IsFirstRequest(j) ==
    probe.calls[j].op = "fetch" /\ j = CHOOSE m \in RequestsFor(probe.calls[j].part) :
        \A n \in RequestsFor(probe.calls[j].part) : m <= n
IsSecondRequest(j) == probe.calls[j].op = "fetch" /\ ~IsFirstRequest(j)

KeywordOccurs(item, k) ==
    Includes(toLowerCase(TitleOf(item)), toLowerCase(probe.sections[k]))
ExpectedSection(item) ==
    IF \E k \in 1..Len(probe.sections) : KeywordOccurs(item, k)
    THEN probe.sections[CHOOSE k \in 1..Len(probe.sections) :
            /\ KeywordOccurs(item, k)
            /\ \A m \in 1..(k - 1) : ~KeywordOccurs(item, m)]
    ELSE Others
Headings == {h \in 1..Len(probe.lines) : probe.lines[h].kind = "heading"}
HeadingAbove(j) ==
    probe.lines[CHOOSE h \in Headings :
        h < j /\ \A g \in Headings : g < j => g <= h].section
KeywordIndex(section) ==
    CHOOSE k \in 1..Len(probe.sections) : probe.sections[k] = section

\* C18.  With sections configured, every item is rendered once, under the
\* heading of the first configured keyword its title contains (case
\* ignored), or under Others when it contains none; the headings follow the
\* configured order with Others last; and every heading has an item.
C18_SectionGrouping ==
    (probe.phase = "output" /\ Len(probe.sections) > 0) =>
        /\ \A i \in 1..Len(probe.items) :
              \E j \in 1..Len(probe.lines) :
                  /\ probe.lines[j] = ItemLine(probe.items[i])
                  /\ \A m \in 1..Len(probe.lines) :
                        probe.lines[m] = ItemLine(probe.items[i]) => m = j
                  /\ \E h \in Headings : h < j
                  /\ HeadingAbove(j) = ExpectedSection(probe.items[i])
        /\ Cardinality({j \in 1..Len(probe.lines) : probe.lines[j].kind = "item"})
              = Len(probe.items)
        /\ \A h \in Headings :
              /\ h < Len(probe.lines)
              /\ probe.lines[h + 1].kind = "item"
              /\ probe.lines[h - 1] = BlankLine
        /\ \A g, h \in Headings : g < h =>
              /\ probe.lines[g].section # Others
              /\ probe.lines[h].section # probe.lines[g].section
              /\ probe.lines[h].section # Others =>
                    KeywordIndex(probe.lines[g].section)
                        < KeywordIndex(probe.lines[h].section)

\* Keywords X, then ax.  An item titled "b" and then one titled "BAX": the
\* second goes under X, the first under Others, which is rendered last; ax
\* gets no heading.
C18_Witness ==
    /\ probe.phase = "output"
    /\ probe.sections = <<KeywordX, KeywordAx>>
    /\ probe.items = <<[id |-> <<"q", "2">>, title |-> <<"b">>],
                       [id |-> <<"q", "3">>, title |-> <<"B", "A", "X">>]>>
    /\ probe.lines = <<HeaderLine,
                       BlankLine, HeadingLine(KeywordX), ItemLine(probe.items[2]),
                       BlankLine, HeadingLine(Others), ItemLine(probe.items[1])>>

\* An element for which an id can be resolved, and where the page has them.
Identifiable(el) ==
    IF probe.idAttribute THEN el.attr # NullField /\ Len(el.attr) > 0
    ELSE /\ el.url # NullField
         /\ \E p \in 1..Len(el.url) :
               /\ p > Len(ProductsPrefix)
               /\ SubSeq(el.url, p - Len(ProductsPrefix), p - 1) = ProductsPrefix
               /\ el.url[p] \notin {"/", "?"}
IdentifiableAt == {k \in 1..Len(probe.elements) : Identifiable(probe.elements[k])}
\* C19.  extractItemList emits one item for each element whose id can be
\* resolved and none for the others, so the persisted id array, newItems
\* and the notification hold ids of identifiable elements only.
C19_NoIdNotEmitted ==
    probe.phase = "output" =>
        /\ Len(probe.items) = Cardinality(IdentifiableAt)
        /\ \A it \in Range(probe.items) :
              \E k \in IdentifiableAt :
                  it.id = DigitsValue(ResolveId(probe.elements[k], probe.idAttribute), 0)
        /\ \A id \in Range(Get(probe.out.state, monitorKey(ListName)).ids)
                     \cup IdsIn(Range(probe.out.result.newItems))
                     \cup IdsIn(Range(probe.out.send.items)) :
              \/ id \in Range(Get(probe.state, monitorKey(ListName)).ids)
                 /\ probe.out.state = probe.state
              \/ \E k \in IdentifiableAt :
                    id = DigitsValue(ResolveId(probe.elements[k], probe.idAttribute), 0)

\* No idAttribute configured, prior [1]: an element whose url is /products/
\* without a code is passed over, and the one at /products/3 is reported.
C19_Witness ==
    /\ probe.phase = "output"
    /\ ~probe.idAttribute
    /\ probe.elements = <<Element(<<"2">>, ProductsPrefix, Price50),
                          Element(NullField, ProductsPrefix \o <<"3">>, Price50)>>
    /\ probe.items = <<Item(3, Price50)>>
    /\ Get(probe.out.state, monitorKey(ListName)) = JsonStringify(<<3>>)
    /\ probe.out.result.newItems = <<Item(3, Price50)>>

\* C20.  As claimed: whatever happens to the process while it saves,
\* state.json afterwards holds the complete new map or what it held before.
C20_SaveAtomic ==
    [][pc = "running" =>
        \/ stateFile' = stateFile
        \/ stateFile' = FileOf(stateRef)]_vars

\* The state file a run found cannot be used: it is missing or JSON.parse
\* rejects it.  (state.json does not change while a run is in progress.)
Unreadable == ~stateFile.exists \/ ~stateFile.valid

\* C21.  loadStateFile returns the empty map for a missing or corrupt state
\* file, and the run proceeds: whatever a monitor extracts, it finds no
\* entry, no result is an error on account of the file, and a monitor that
\* extracted something and whose message, if any, got through is
\* initialized.
C21_LoadNeverFails ==
    (pc = "running" /\ Unreadable) =>
        /\ loaded = <<>>
        /\ \A i \in 1..Len(monitors) :
              /\ Prior(i) = NoValue
              /\ results[i].status = "error" =>
                    results[i].error \in {"FetchError", "ParseError", "NotifyError"}
              /\ (Done(i) /\ ExtractedSome(i) /\ sends[i].st # "failed") =>
                    /\ results[i].status = "initialized"
                    /\ IsBaseline(i, Entry(i))

\* An earlier run died while saving both monitors' entries, one entry on
\* disk; the next run's list monitor starts from nothing.
C21_Witness ==
    /\ pc = "running"
    /\ stateFile.exists /\ ~stateFile.valid
    /\ Len(stateFile.text) = 1
    /\ \E i \in 1..Len(monitors) :
          /\ Done(i) /\ IsList(i)
          /\ results[i].status = "initialized"
          /\ Get(stateFile.text, monitorKey(monitors[i].name)) # NoValue

\* C22: while a run is under way the result array has one place per
\* configured monitor, in the configuration's order: a monitor that has
\* returned has its own result (its name, one of the four statuses) in its
\* own place, whatever the order of the returns and whichever of them
\* failed, and a monitor that has not returned has none yet.
Statuses == {"initialized", "unchanged", "new_items", "error"}
C22_OneResultEach ==
    pc = "running" =>
        /\ Len(results) = Len(monitors)
        /\ \A i \in 1..Len(monitors) :
              IF Done(i)
              THEN /\ results[i].name = monitors[i].name
                   /\ results[i].status \in Statuses
              ELSE results[i] = NoResult

\* The second monitor has failed and returned while the first one is still
\* sending.
C22_Witness ==
    /\ pc = "running"
    /\ Len(monitors) = 2
    /\ mpc[1] = "send"
    /\ Done(2)
    /\ results[2].status = "error"
    /\ results[2].name = monitors[2].name

\* C23: without TELEGRAM_TOKEN or TELEGRAM_CHAT_ID sendMessage makes no
\* call (no fetch, no wait), logs the text and ends without an error; the
\* evaluation that found item 2 new then returns new_items with that item,
\* and the saved state holds the ids now observed.
C23_NoCredentials ==
    (~probe.in.creds /\ probe.phase = "ended") =>
        /\ probe.calls = <<>>
        /\ probe.logged = <<probe.in.text>>
        /\ probe.outcome = "skipped"
        /\ probe.returned # NoResult =>
              /\ probe.returned.status = "new_items"
              /\ probe.returned.newItems = <<Item(2, Price50)>>
              /\ Get(loadStateFile(probe.saved), monitorKey(ListName))
                    = JsonStringify(<<1, 2>>)

C23_Witness ==
    /\ ~probe.in.creds
    /\ probe.phase = "ended"
    /\ probe.in.text = <<"a", NewLine, "b">>
    /\ probe.returned.status = "new_items"
    /\ probe.saved # NoFile

\* C24: after a list diff with a prior entry and a non-empty merged map,
\* whether it reports new_items or unchanged, the entry is the ascending
\* array of the ids observed now and of no other: an id of the prior entry
\* that no page shows any more is gone from it.
ProbeGone == Range(ProbePrior.ids) \ IdsIn(ProbeMerged)
C24_EntryIsCurrent ==
    ProbeDiffed =>
        /\ probe.out.result.status \in {"new_items", "unchanged"}
        /\ ProbeEntry = JsonStringify(Sort(ProbeEntry.ids))
        /\ \A id \in DiffIds :
              id \in Range(ProbeEntry.ids) <=> \E it \in ProbeMerged : it.id = id
        /\ Range(ProbeEntry.ids) \cap ProbeGone = {}

\* Prior [1, 2]; the pages show item 2 alone, so nothing is new: the entry
\* becomes [2].
C24_Witness ==
    /\ ProbeDiffed
    /\ ProbePrior.ids = <<1, 2>>
    /\ IdsIn(ProbeMerged) = {2}
    /\ probe.out.result.status = "unchanged"
    /\ ProbeEntry.ids = <<2>>

\* Monitor i has returned after a Ref.update: it initialized or reported
\* new items, its send failed (the update precedes the send), or it is a
\* list monitor that found nothing new in a non-empty extraction.
Updated(i) ==
    /\ Done(i)
    /\ \/ results[i].status \in {"initialized", "new_items"}
       \/ sends[i].st = "failed"
       \/ results[i].status = "unchanged" /\ IsList(i) /\ ExtractedSome(i)

\* C25: state.json is saved at the end of a run only if some monitor of the
\* run updated the state; a run whose monitors all end unchanged without an
\* update, or in error, does not write the file.
C25_WriteOnlyIfUpdated ==
    [][fileOps' = Append(fileOps, "saveStateFile") =>
            \E i \in 1..Len(monitors) : Updated(i)]_vars

\* C26: the monitors of a run are evaluated one at a time, in the order of
\* the configuration: a monitor gets past its fetch and extraction (to read
\* the Ref, or to return an error) only when every monitor before it has
\* returned, so at most one evaluation is between its read of the Ref and
\* its return.
C26_Serialized ==
    pc = "running" =>
        /\ \A i \in 1..Len(monitors) :
              mpc[i] # "fetch" => \A j \in 1..(i - 1) : mpc[j] = "done"
        /\ Cardinality({i \in 1..Len(monitors) : mpc[i] = "send"}) <= 1

\* The item the urls' pages show last for an id: the last item of that id
\* on the last page, in the order of the urls, that has one.
LastShown(id) ==
    LET u == CHOOSE v \in 1..Len(probe.urls) :
                /\ \E k \in 1..Len(probe.urls[v]) : probe.urls[v][k].id = id
                /\ \A w \in (v + 1)..Len(probe.urls) :
                      \A k \in 1..Len(probe.urls[w]) : probe.urls[w][k].id # id
        k == CHOOSE m \in 1..Len(probe.urls[u]) :
                /\ probe.urls[u][m].id = id
                /\ \A n \in (m + 1)..Len(probe.urls[u]) : probe.urls[u][n].id # id
    IN  probe.urls[u][k]

\* C27: whichever order the fetches and the extractions of the pages
\* complete in, the merged map has one item for each id some page shows,
\* and it is the one from the page that is latest in the urls sequence.
C27_LastPageWins ==
    probe.phase = "merged" =>
        /\ Range(MapKeys(probe.itemById)) = {it.id : it \in Range(Flat(probe.urls))}
        /\ Len(probe.itemById) = Cardinality(Range(MapKeys(probe.itemById)))
        /\ \A it \in Range(Flat(probe.urls)) :
              MapGet(probe.itemById, it.id) = LastShown(it.id)

\* Item 1 is on both pages at different prices, and the second page's
\* fetch and extraction complete first: the map holds the second page's.
C27_Witness ==
    /\ probe.phase = "merged"
    /\ probe.urls = <<<<Item(1, Price75), Item(2, Price50)>>, <<Item(1, Price50)>>>>
    /\ probe.fetched = <<2, 1>>
    /\ probe.extracted = <<2, 1>>
    /\ MapGet(probe.itemById, 1) = Item(1, Price50)

\* The last request made for part k, and the parts requests were made for.
LastRequestFor(k) ==
    probe.calls[CHOOSE j \in RequestsFor(k) : \A m \in RequestsFor(k) : m <= j]
Requested == {k \in 1..Len(probe.parts) : RequestsFor(k) # {}}

\* C28: the parts are sent in their order, one after the other: the calls
\* never go back to an earlier part, a part is requested only when every
\* part before it has been requested and its last response was a success;
\* the send succeeds only when that holds of all parts, and when it fails
\* the failing part is the last one requested.
C28_PartsInOrder ==
    /\ \A j \in 1..(Len(probe.calls) - 1) :
          probe.calls[j].part <= probe.calls[j + 1].part
    /\ \A k \in Requested :
          \A m \in 1..(k - 1) : m \in Requested /\ LastRequestFor(m).status = "200"
    /\ (probe.phase = "ended" /\ probe.outcome = "sent") =>
          \A k \in 1..Len(probe.parts) :
              k \in Requested /\ LastRequestFor(k).status = "200"
    /\ (probe.phase = "ended" /\ probe.outcome = "NotifyError") =>
          \E k \in Requested :
              /\ LastRequestFor(k).status # "200"
              /\ Requested = 1..k

\* Four parts: the first is delivered after a retry, the second is
\* rejected, the third and fourth are never requested.
C28_Witness ==
    /\ probe.phase = "ended"
    /\ probe.outcome = "NotifyError"
    /\ probe.parts = <<<<"a">>, <<"b">>, <<"a">>, <<"b">>>>
    /\ Requested = {1, 2}
    /\ Cardinality(RequestsFor(1)) = 2
    /\ LastRequestFor(1).status = "200"
    /\ LastRequestFor(2).status = "500"

\* The merged items that pass the price filter and whose id the prior entry
\* does not hold.
ProbeNewCandidates ==
    {it \in ProbeMerged : /\ IsCandidate(it, probe.monitor.maxPrice)
                          /\ it.id \notin Range(ProbePrior.ids)}

\* C29: with a prior entry and a non-empty extraction the result is
\* new_items exactly when some candidate is new (unchanged otherwise), and
\* a new_items result carries the new items and, as its count, their
\* number.
C29_NewItemsResult ==
    ProbeDiffed =>
        /\ probe.out.result.status = "new_items" <=> ProbeNewCandidates # {}
        /\ probe.out.result.status = "new_items" =>
              /\ Range(probe.out.result.newItems) = ProbeNewCandidates
              /\ probe.out.result.count = Len(probe.out.result.newItems)

\* C30: the run on a configuration and the run on the same monitors in the
\* opposite order give every monitor the same result, and leave state.json
\* holding the same map: the same keys, each with the same value.
C30_OrderIndependent ==
    probe.phase = "output" =>
        /\ Len(probe.run.results) = 2 /\ Len(probe.permuted.results) = 2
        /\ \A i \in 1..2 : probe.permuted.results[3 - i] = probe.run.results[i]
        /\ Keys(loadStateFile(probe.permuted.file)) = Keys(loadStateFile(probe.run.file))
        /\ \A i \in 1..2 :
              Get(loadStateFile(probe.permuted.file), monitorKey(probe.config[i].name))
                = Get(loadStateFile(probe.run.file), monitorKey(probe.config[i].name))

\* No state.json yet: the first monitor is initialized in both runs and the
\* second, too; the two files list the same entries in different orders.
C30_Witness ==
    /\ probe.phase = "output"
    /\ probe.file.text = <<>>
    /\ \A i \in 1..2 : probe.run.results[i].status = "initialized"
    /\ Len(probe.run.file.text) = 2
    /\ probe.permuted.file.text = Reverse(probe.run.file.text)
    /\ probe.permuted.file.text # probe.run.file.text

\* C32: whatever the sections configuration, the message has one bullet
\* line for each item passed to formatNewItems and no other bullet line, so
\* the bullet lines are as many as the count in the header.
BulletLines == {j \in 1..Len(probe.lines) : probe.lines[j].kind = "item"}
C32_OneBulletEach ==
    probe.phase = "output" =>
        /\ \A i \in 1..Len(probe.items) :
              Cardinality({j \in BulletLines :
                              probe.lines[j] = ItemLine(probe.items[i])}) = 1
        /\ Cardinality(BulletLines) = Len(probe.items)

\* C31: evaluating one monitor changes at most the entry under that
\* monitor's own key.  Every other entry of the StateMap -- another
\* monitor's, the bot's __bot_last_update_id__ -- has the same value after
\* the evaluation as in what was loaded, no entry under another key appears,
\* and the run writes the foreign entries back as it found them.
SameElsewhere(before, after, own) ==
    \A key \in Keys(before) \cup Keys(after) :
        key # own => Get(after, key) = Get(before, key)
C31_ForeignEntriesKept ==
    probe.phase = "output" =>
        /\ SameElsewhere(loadStateFile(probe.file), probe.after,
                         monitorKey(probe.monitor.name))
        /\ SameElsewhere(loadStateFile(probe.file),
                         loadStateFile(probe.run.file),
                         monitorKey(probe.monitor.name))
C31_Witness ==
    /\ probe.phase = "output"
    /\ BOT_UPDATE_KEY \in Keys(probe.file.text)
    /\ monitorKey(OtherListName) \in Keys(probe.file.text)
    /\ probe.file.text[1].key = BOT_UPDATE_KEY
    /\ Get(probe.after, monitorKey(probe.monitor.name))
            # Get(probe.file.text, monitorKey(probe.monitor.name))
    /\ Get(probe.run.file.text, BOT_UPDATE_KEY) = StringOfNumber(2)

\* C33: the offset stored under __bot_last_update_id__ in state.json never
\* decreases, whatever the interleaving of bot runs and monitor runs on the
\* file; a bot run that received updates and saves stores the maximum of
\* the offset it loaded and the update_ids it received; and no update is
\* handled (has a message sent, a workflow dispatched, a status looked up
\* or the monitors run for it) by more than one bot run.
Offset(file) == NumberOf(Get(loadState(file), BOT_UPDATE_KEY))
MaxOf(ids) == CHOOSE n \in ids : \A m \in ids : m <= n
OffsetNeverDecreases == Offset(probe'.file) >= Offset(probe.file)
SavesTheMaximum ==
    (probe.bpc = "save" /\ probe'.bpc = "saved") =>
        Offset(probe'.file) =
            MaxOf({probe.lastId} \cup {u.update_id : u \in Range(probe.batch)})
HandledOnce == \A id \in DOMAIN probe.handled : Cardinality(probe.handled[id]) <= 1
C33_OffsetMonotone ==
    /\ [][OffsetNeverDecreases]_vars
    /\ [][SavesTheMaximum]_vars
    /\ []HandledOnce

\* C34: the bot acts only on messages from the configured chat.  Handling
\* an update without a message, or with a message from another chat, makes
\* no call at all (no sendMessage, no dispatchWorkflow, no
\* getLatestWorkflowRun, no run of the monitors) and cannot end main; its
\* update_id is still counted in newLastId, so the offset a run stores is
\* never below the update_id of any update of its batch, foreign ones
\* included.
Foreign(update) == update.chat # "mine"
C34_OnlyConfiguredChat ==
    /\ (probe.last # NoUpdate /\ Foreign(probe.last)) =>
            /\ probe.acts = <<>>
            /\ probe.bpc # "aborted"
            /\ probe.newLastId >= probe.last.update_id
    /\ probe.bpc = "saved" =>
            \A j \in 1..Len(probe.batch) :
                NumberOf(Get(probe.fresh, BOT_UPDATE_KEY)) >= probe.batch[j].update_id
C34_Witness ==
    /\ probe.bpc = "saved"
    /\ Len(probe.batch) = 2
    /\ probe.batch[1].chat = "mine"
    /\ probe.batch[2].chat = "other"
    /\ probe.batch[2].text = "/trigger"
    /\ probe.last = probe.batch[2]
    /\ probe.acts = <<>>
    /\ probe.lastId = 0
    /\ Offset(probe.file) = 2

\* C35: the bot's final save changes only the __bot_last_update_id__ entry
\* relative to what state.json held at its final load: every other entry of
\* the file it writes has the value loaded then, and none is added or
\* dropped, so entries that monitors wrote while the bot handled commands
\* stay.  A run that ends at getUpdates (not answered with ok, or no update)
\* or without credentials leaves state.json as it is.
FinalLoadIsOfTheFile ==
    (probe.bpc = "load" /\ probe'.bpc = "save") => probe'.fresh = loadState(probe.file)
FinalSaveKeepsTheRest ==
    (probe.bpc = "save" /\ probe'.bpc = "saved") =>
        /\ SameElsewhere(probe.fresh, loadState(probe'.file), BOT_UPDATE_KEY)
        /\ Get(loadState(probe'.file), BOT_UPDATE_KEY) = StringOfNumber(probe.newLastId)
EarlyReturnWritesNothing ==
    (probe'.run # probe.run /\ probe'.bpc = "returned") => probe'.file = probe.file
C35_FinalSaveFrame ==
    /\ [][FinalLoadIsOfTheFile]_vars
    /\ [][FinalSaveKeepsTheRest]_vars
    /\ [][EarlyReturnWritesNothing]_vars
\* The monitors run by /trigger wrote an entry that the bot had not loaded
\* at its start, and the final save kept it.
C35_Witness ==
    /\ probe.bpc = "saved"
    /\ monitorKey(ListName) \notin Keys(probe.state)
    /\ monitorKey(ListName) \in Keys(loadState(probe.file))
    /\ Offset(probe.file) = probe.newLastId
    /\ probe.newLastId > probe.lastId
\* A run returned at getUpdates over a state.json that holds entries.
C35_WitnessReturned ==
    /\ probe.bpc = "returned"
    /\ probe.run = 2
    /\ probe.state # <<>>
    /\ probe.file = FileOf(probe.state)

\* C36: for each /trigger from the configured chat, src/bot.ts dispatches
\* the configured workflows one after another in their listed order, none
\* after the first that fails, and then one final outcome message reaches
\* the chat: the success message if and only if every dispatch succeeded,
\* the failure message otherwise; and main goes on to the next update and to
\* the save, so that the update is consumed.
ActsOf(op) == SelectSeq(probe.acts, LAMBDA a : a.op = op)
Dispatches == ActsOf("dispatchWorkflow")
Delivered(arg) == Act("sendMessage", arg, TRUE) \in Range(probe.acts)
AllDispatched ==
    /\ Len(Dispatches) = Len(MONITOR_WORKFLOWS)
    /\ \A j \in 1..Len(Dispatches) : Dispatches[j].ok
InListedOrder ==
    /\ Len(Dispatches) <= Len(MONITOR_WORKFLOWS)
    /\ \A j \in 1..Len(Dispatches) :
          /\ Dispatches[j].arg = MONITOR_WORKFLOWS[j]
          /\ ~Dispatches[j].ok => j = Len(Dispatches)
SendsWentThrough == \A a \in Range(ActsOf("sendMessage")) : a.ok
TriggerHandled ==
    /\ probe.bot = "bot.ts"
    /\ probe.last.chat = "mine"
    /\ probe.last.text = "/trigger"
TriggerOutcome ==
    /\ InListedOrder
    /\ Delivered("dispatched") <=> AllDispatched
    /\ Delivered("trigger_failed") <=> ~AllDispatched
    /\ probe.bpc # "aborted"
C36_TriggerOutcome == TriggerHandled => TriggerOutcome

====
